---- MODULE Spec2Model ----
(***************************************************************************)
(* A model of the coral-rs agent runtime:                                  *)
(*   - Agent::run_completion (src/src/agent.rs): one round of refresh,     *)
(*     completion request, tool execution and telemetry;                   *)
(*   - AgentLoop::execute (src/src/agent_loop.rs): the outer scheduler;    *)
(*   - ClaimManager (src/src/claim_manager.rs): the budget ledger;         *)
(*   - TelemetryRequest::send (src/src/telemetry.rs).                      *)
(*                                                                         *)
(* Every await point of the Rust code is a step of the model; the external *)
(* collaborators (MCP provider, completion model, tools, REST API) answer  *)
(* nondeterministically.                                                   *)
(***************************************************************************)
EXTENDS Integers, Sequences, FiniteSets, TLC

----------------------------------------------------------------------------
(* Bounds of the model                                                     *)

\* longest list of content items one completion response carries
MaxItems == 2
\* largest configured iteration_tool_quota
MaxQuota == 3
\* largest configured iteration_max of the IterationPromptProvider
MaxIterations == 2
\* largest token count a completion reports in its Usage
MaxTokens == 2
\* longest list of parts of a CompletionEvaluatedPrompt
MaxParts == 2
\* how often one prompt is evaluated
MaxEvaluations == 2

\* inner rounds of one prompt are explored up to this depth (an unlimited
\* quota never ends the inner loop by itself)
DepthCap == MaxQuota + 1

----------------------------------------------------------------------------
(* Values                                                                  *)

\* Agent::mcp_connections, in registration order (identifiers)
McpConnections == <<"coral", "aux">>
Conns == DOMAIN McpConnections
NoConn == 0

CoralSendMessage == "coral_send_message"
ToolNames == {CoralSendMessage, "search"}
\* the order in which a provider lists its tools
ToolOrder == <<CoralSendMessage, "search">>

ResourceUris == {"r1"}

None == [some |-> FALSE, v |-> 0]
Some(n) == [some |-> TRUE, v |-> n]

Last(s) == s[Len(s)]
Pop(s) == SubSeq(s, 1, Len(s) - 1)

RECURSIVE SelectNames(_, _)
\* the subsequence of ToolOrder (from position k on) whose names are in S
SelectNames(S, k) ==
    IF k > Len(ToolOrder) THEN <<>>
    ELSE IF ToolOrder[k] \in S
         THEN <<ToolOrder[k]>> \o SelectNames(S, k + 1)
         ELSE SelectNames(S, k + 1)

Range(s) == {s[k] : k \in DOMAIN s}

\* Vec::retain(|x| keep(x)) for sequences
RECURSIVE Retain(_, _)
Retain(s, drop) ==
    IF s = <<>> THEN <<>>
    ELSE IF s[1] \in drop THEN Retain(Tail(s), drop)
         ELSE <<s[1]>> \o Retain(Tail(s), drop)

----------------------------------------------------------------------------
(* State                                                                   *)

VARIABLES
    \* configuration, fixed at construction
    conn_flags,             \* McpServerConnection policy flags, per connection
    telemetry,              \* Agent::telemetry (TelemetryMode)
    iteration_tool_quota,   \* AgentLoop::iteration_tool_quota (Option<u32>)
    iteration_max,          \* IterationPromptProvider::iteration_max
    model_outputs,          \* the responses the completion model can give
    \* Agent
    tools_validated,        \* ValidatedMcpServerConnection::tools_validated
    resources_validated,    \* ValidatedMcpServerConnection::resources_validated
    revalidating_tooling,   \* Agent::revalidating_tooling
    revalidating_resources, \* Agent::revalidating_resources
    static_tools,           \* completion_agent.static_tools (Vec<String>)
    tools,                  \* completion_agent.tools (ToolSet): name -> source
    static_context,         \* completion_agent.static_context (Vec<Document>)
    \* one call of run_completion
    pc,                     \* position of the single flow of control
    conn_i,                 \* index of the connection a refresh loop is at
    new_tools,              \* local `tools` of validate_mcp_tooling
    messages,               \* the message history
    resp,                   \* resp.choice of the completion response
    choice_i,               \* index of the content item being processed
    tools_used,
    texts,
    telemetry_targets,
    result,                 \* what run_completion returned
    \* AgentLoop::execute
    depth,
    iterations,
    iteration_count,        \* IterationPromptProvider::iteration_count
    log,                    \* how the last prompt iteration ended
    \* observation of the external calls
    calls,                  \* external calls of the current round, in order
    fetched,                \* tool names the current round's refresh fetched
    round_input,            \* the history run_completion was called with
    prev_tools,             \* the ToolSet as the previous round left it
    prev_round,             \* what else the previous round left and listed
    completions,            \* completion requests execute issued so far
    \* ClaimManager and the environment it reads
    claim_manager,          \* the ClaimManager's fields
    send_claims,            \* value of the variable CORAL_SEND_CLAIMS
    ledger_pc,              \* position of the flow inside the ledger
    ledger_op,              \* the ledger operation called, with its arguments
    pending,                \* amounts the operation still passes to `claim`
    claims_sent,            \* claim_payment requests the operation issued
    budget,                 \* the last claim_payment response
    ledger_result,          \* what the ledger operation returned
    \* one TelemetryRequest sent on its own
    request,                \* the TelemetryRequest
    send_result,            \* what `send` returned and what it posted
    \* one CompletionEvaluatedPrompt and its evaluations
    completion_prompt,      \* the CompletionEvaluatedPrompt
    buffer,                 \* local `buffer` of evaluate
    part_i,                 \* index of the part the loop of evaluate is at
    prompt_pc,              \* position of the flow inside evaluate
    evaluated,              \* what the calls of evaluate returned, in order
    read                    \* what the parts of this evaluation read

configVars == <<conn_flags, telemetry, iteration_tool_quota, iteration_max,
                model_outputs>>
agentVars == <<tools_validated, resources_validated, revalidating_tooling,
               revalidating_resources, static_tools, tools, static_context>>
roundVars == <<pc, conn_i, new_tools, messages, resp, choice_i, tools_used,
               texts, telemetry_targets, result>>
loopVars == <<depth, iterations, iteration_count, log>>
obsVars == <<calls, fetched, round_input, prev_tools, prev_round, completions>>
ledgerVars == <<claim_manager, send_claims, ledger_pc, ledger_op, pending,
                claims_sent, budget, ledger_result>>
requestVars == <<request, send_result>>
promptVars == <<completion_prompt, buffer, part_i, prompt_pc, evaluated, read>>
engineVars == <<configVars, agentVars, roundVars, loopVars, obsVars>>

----------------------------------------------------------------------------
(* Message history (rig::completion::Message)                              *)

\* a user turn holding a prompt text
UserText ==
    [role |-> "user", kind |-> "text", id |-> 0, call_id |-> "none",
     content |-> <<>>]

\* Message::Assistant { id: None, content: resp.choice }
AssistantTurn(choice) ==
    [role |-> "assistant", kind |-> "content", id |-> 0, call_id |-> "none",
     content |-> choice]

\* the bug of dropping the call-id the model supplied
ToolResultTurnWithoutCallId(item) ==
    [role |-> "user", kind |-> "tool_result", id |-> item.id,
     call_id |-> "none", content |-> <<>>]

\* UserContent::tool_result / tool_result_with_call_id (the output text the
\* turn carries is not represented)
ToolResultTurn(item) ==
    [role |-> "user", kind |-> "tool_result", id |-> item.id,
     call_id |-> item.call_id, content |-> <<>>]

\* AssistantContent items, without the position-derived id; the tool calls
\* of one tool carry a call_id, those of the other do not
ItemKinds ==
    {[kind |-> "ToolCall", name |-> CoralSendMessage, call_id |-> "cid"],
     [kind |-> "ToolCall", name |-> "search", call_id |-> "none"],
     [kind |-> "Text", name |-> "", call_id |-> "none"],
     [kind |-> "Reasoning", name |-> "", call_id |-> "none"]}

\* a response: its items carry their position as tool-call id / text
WithIds(s) ==
    [k \in DOMAIN s |->
        [kind |-> s[k].kind, name |-> s[k].name, call_id |-> s[k].call_id,
         id |-> k]]

SeqsUpTo(S, n) == UNION {[1..k -> S] : k \in 1..n}

\* every response of 1..MaxItems content items (OneOrMany is never empty)
AllOutputs == {WithIds(s) : s \in SeqsUpTo(ItemKinds, MaxItems)}

ToolCallItem == [kind |-> "ToolCall", name |-> CoralSendMessage, call_id |-> "cid"]
TextItem == [kind |-> "Text", name |-> "", call_id |-> "none"]
ReasoningItem == [kind |-> "Reasoning", name |-> "", call_id |-> "none"]

\* a model that answers either with text (after reasoning) or with MaxItems
\* tool calls
LoopOutputs ==
    {WithIds(<<ReasoningItem, TextItem>>),
     WithIds([k \in 1..MaxItems |-> ToolCallItem])}

\* a model that answers either with text (after reasoning) or with one tool
\* call
SmallOutputs ==
    {WithIds(<<ReasoningItem, TextItem>>), WithIds(<<ToolCallItem>>)}

----------------------------------------------------------------------------
(* Agent: the refresh of tools and resources                               *)

NoResult == [ok |-> FALSE, err |-> "none", messages |-> <<>>, texts |-> <<>>,
             tools_used |-> 0]
Ok(m, t, u) == [ok |-> TRUE, err |-> "none", messages |-> m, texts |-> t,
                tools_used |-> u]
Err(e) == [ok |-> FALSE, err |-> e, messages |-> <<>>, texts |-> <<>>,
           tools_used |-> 0]

Call(op, c, ok, arg) ==
    [op |-> op, conn |-> c, ok |-> ok, arg |-> arg]

\* the calls of get_tools and get_resources that succeeded
IsListCall(call) == call.op \in {"list_tools", "list_resources"} /\ call.ok

\* before the first round
NoRound == [static_tools |-> <<>>, static_context |-> <<>>, lists |-> <<>>]

\* the bug of leaving the revalidating tools in the ToolSet
DeleteToolsForgotten(ts, names) == ts

\* ToolSet::delete_tool for every name of the revalidating set
DeleteTools(ts, names) ==
    [n \in ToolNames |-> IF n \in names THEN NoConn ELSE ts[n]]

\* tools.into_iter().fold(agent_tools, add_tool): a later tool of the same
\* name replaces the earlier one
RECURSIVE AddTools(_, _)
AddTools(ts, new) ==
    IF new = <<>> THEN ts
    ELSE AddTools([ts EXCEPT ![new[1].name] = new[1].conn], Tail(new))

ToolNamesOf(new) == [k \in DOMAIN new |-> new[k].name]

\* the bug of not looking at skip_tooling
SkipsToolingIgnoringSkip(c) ==
    tools_validated[c] /\ ~conn_flags[c].revalidate_tooling

\* the guard of `continue` in validate_mcp_tooling
SkipsTooling(c) ==
    \/ tools_validated[c] /\ ~conn_flags[c].revalidate_tooling
    \/ conn_flags[c].skip_tooling

\* the bug of not looking at resources_validated
SkipsResourcesIgnoringValidated(c) == conn_flags[c].skip_resources

\* the guard of `continue` in validate_mcp_resources
SkipsResources(c) ==
    \/ resources_validated[c] /\ ~conn_flags[c].revalidate_resources
    \/ conn_flags[c].skip_resources

\* what get_resources can return: a list of ResourceContents
ResourceLists ==
    {<<>>} \cup
    {<<[uri |-> u, kind |-> k]>> : u \in ResourceUris, k \in {"text", "blob"}}

RECURSIVE ToDocuments(_, _)
\* the flat_map of validate_mcp_resources: text contents become Documents
\* (conn records which connection the document was read from)
ToDocuments(contents, c) ==
    IF contents = <<>> THEN <<>>
    ELSE IF contents[1].kind = "text"
         THEN <<[id |-> contents[1].uri, conn |-> c]>>
                 \o ToDocuments(Tail(contents), c)
         ELSE ToDocuments(Tail(contents), c)

\* the bug of leaving the revalidating documents in the context
RetainDocsForgotten(docs, ids) == docs

RECURSIVE RetainDocs(_, _)
\* static_context.retain(|doc| doc.id != id) for every id of the set
RetainDocs(docs, ids) ==
    IF docs = <<>> THEN <<>>
    ELSE IF docs[1].id \in ids THEN RetainDocs(Tail(docs), ids)
         ELSE <<docs[1]>> \o RetainDocs(Tail(docs), ids)

\* run_completion is entered with history msgs: validate_mcp_tooling first
\* removes the tooling recorded for revalidation
EnterRunCompletion(msgs) ==
    /\ static_tools' = Retain(static_tools, revalidating_tooling)
    /\ tools' = DeleteTools(tools, revalidating_tooling)
    /\ revalidating_tooling' = {}
    /\ new_tools' = <<>>
    /\ conn_i' = 1
    /\ pc' = "validate_tooling"
    /\ messages' = msgs
    /\ resp' = <<>>
    /\ choice_i' = 0
    /\ tools_used' = 0
    /\ texts' = <<>>
    /\ telemetry_targets' = <<>>
    /\ result' = NoResult
    /\ calls' = <<>>
    /\ fetched' = {}
    /\ round_input' = msgs
    /\ prev_tools' = tools
    /\ prev_round' =
           [static_tools |-> static_tools,
            static_context |-> static_context,
            lists |-> SelectSeq(calls, IsListCall)]
    /\ UNCHANGED <<tools_validated, resources_validated,
                   revalidating_resources, static_context, completions>>

\* `?` on a failed await: run_completion returns the error
ReturnErr(e) ==
    /\ pc' = "returned"
    /\ result' = Err(e)

\* a connection the tool refresh passes over
ToolingSkip ==
    /\ pc = "validate_tooling"
    /\ conn_i <= Len(McpConnections)
    /\ SkipsTooling(conn_i)
    /\ conn_i' = conn_i + 1
    /\ UNCHANGED <<ledgerVars, requestVars, promptVars>>
    /\ UNCHANGED <<configVars, agentVars, loopVars, obsVars>>
    /\ UNCHANGED <<pc, new_tools, messages, resp, choice_i, tools_used, texts,
                   telemetry_targets, result>>

\* get_tools succeeds with the tools named S
ToolingFetchOk ==
    /\ pc = "validate_tooling"
    /\ conn_i <= Len(McpConnections)
    /\ ~SkipsTooling(conn_i)
    /\ \E S \in SUBSET ToolNames :
        LET names == SelectNames(S, 1)
            mcp_tools == [k \in DOMAIN names |->
                             [name |-> names[k], conn |-> conn_i]]
        IN  /\ tools_validated' = [tools_validated EXCEPT ![conn_i] = TRUE]
            /\ revalidating_tooling' =
                   IF conn_flags[conn_i].revalidate_tooling
                   THEN revalidating_tooling \cup S
                   ELSE revalidating_tooling
            /\ new_tools' = new_tools \o mcp_tools
            /\ calls' = Append(calls, Call("list_tools", conn_i, TRUE, names))
            /\ fetched' = fetched \cup S
    /\ conn_i' = conn_i + 1
    /\ UNCHANGED <<ledgerVars, requestVars, promptVars>>
    /\ UNCHANGED <<configVars, loopVars, round_input, prev_tools,
                   prev_round, completions>>
    /\ UNCHANGED <<resources_validated, revalidating_resources, static_tools,
                   tools, static_context>>
    /\ UNCHANGED <<pc, messages, resp, choice_i, tools_used, texts,
                   telemetry_targets, result>>

\* get_tools fails: the fetched tools of this refresh are dropped
ToolingFetchErr ==
    /\ pc = "validate_tooling"
    /\ conn_i <= Len(McpConnections)
    /\ ~SkipsTooling(conn_i)
    /\ calls' = Append(calls, Call("list_tools", conn_i, FALSE, ""))
    /\ ReturnErr("McpServiceError")
    /\ new_tools' = <<>>
    /\ UNCHANGED <<ledgerVars, requestVars, promptVars>>
    /\ UNCHANGED <<configVars, agentVars, loopVars, fetched, round_input, prev_tools,
                   prev_round, completions>>
    /\ UNCHANGED <<conn_i, messages, resp, choice_i, tools_used, texts,
                   telemetry_targets>>

\* the end of validate_mcp_tooling (the fetched tools join the agent's) and
\* the start of validate_mcp_resources (revalidating resources are removed)
ToolingMerge ==
    /\ pc = "validate_tooling"
    /\ conn_i > Len(McpConnections)
    /\ static_tools' = static_tools \o ToolNamesOf(new_tools)
    /\ tools' = AddTools(tools, new_tools)
    /\ new_tools' = <<>>
    /\ static_context' = RetainDocs(static_context, revalidating_resources)
    /\ revalidating_resources' = {}
    /\ conn_i' = 1
    /\ pc' = "validate_resources"
    /\ UNCHANGED <<ledgerVars, requestVars, promptVars>>
    /\ UNCHANGED <<configVars, loopVars, obsVars>>
    /\ UNCHANGED <<tools_validated, resources_validated, revalidating_tooling>>
    /\ UNCHANGED <<messages, resp, choice_i, tools_used, texts,
                   telemetry_targets, result>>

\* where the flow goes after the connection at conn_i
AfterResources == IF conn_i = Len(McpConnections) THEN "completion"
                  ELSE "validate_resources"

\* a connection the resource refresh passes over
ResourcesSkip ==
    /\ pc = "validate_resources"
    /\ SkipsResources(conn_i)
    /\ conn_i' = conn_i + 1
    /\ pc' = AfterResources
    /\ UNCHANGED <<ledgerVars, requestVars, promptVars>>
    /\ UNCHANGED <<configVars, agentVars, loopVars, obsVars>>
    /\ UNCHANGED <<new_tools, messages, resp, choice_i, tools_used, texts,
                   telemetry_targets, result>>

\* get_resources succeeds
ResourcesFetchOk ==
    /\ pc = "validate_resources"
    /\ ~SkipsResources(conn_i)
    /\ \E contents \in ResourceLists :
        LET mcp_resources == ToDocuments(contents, conn_i)
            ids == {mcp_resources[k].id : k \in DOMAIN mcp_resources}
        IN  /\ resources_validated' =
                   [resources_validated EXCEPT ![conn_i] = TRUE]
            /\ revalidating_resources' =
                   IF conn_flags[conn_i].revalidate_resources
                   THEN revalidating_resources \cup ids
                   ELSE revalidating_resources
            /\ static_context' = static_context \o mcp_resources
            /\ calls' = Append(calls,
                               Call("list_resources", conn_i, TRUE,
                                    [k \in DOMAIN mcp_resources |->
                                        mcp_resources[k].id]))
    /\ conn_i' = conn_i + 1
    /\ pc' = AfterResources
    /\ UNCHANGED <<ledgerVars, requestVars, promptVars>>
    /\ UNCHANGED <<configVars, loopVars, fetched, round_input, prev_tools,
                   prev_round, completions>>
    /\ UNCHANGED <<tools_validated, revalidating_tooling, static_tools, tools>>
    /\ UNCHANGED <<new_tools, messages, resp, choice_i, tools_used, texts,
                   telemetry_targets, result>>

\* the bug of carrying on after a failed get_resources
ResourcesFetchErrIgnored ==
    /\ pc = "validate_resources"
    /\ ~SkipsResources(conn_i)
    /\ calls' = Append(calls, Call("list_resources", conn_i, FALSE, ""))
    /\ conn_i' = conn_i + 1
    /\ pc' = AfterResources
    /\ UNCHANGED <<ledgerVars, requestVars, promptVars>>
    /\ UNCHANGED <<configVars, agentVars, loopVars, fetched, round_input, prev_tools,
                   prev_round, completions>>
    /\ UNCHANGED <<new_tools, messages, resp, choice_i, tools_used,
                   texts, telemetry_targets, result>>

\* get_resources fails
ResourcesFetchErr ==
    /\ pc = "validate_resources"
    /\ ~SkipsResources(conn_i)
    /\ calls' = Append(calls, Call("list_resources", conn_i, FALSE, ""))
    /\ ReturnErr("McpServiceError")
    /\ UNCHANGED <<ledgerVars, requestVars, promptVars>>
    /\ UNCHANGED <<configVars, agentVars, loopVars, fetched, round_input, prev_tools,
                   prev_round, completions>>
    /\ UNCHANGED <<conn_i, new_tools, messages, resp, choice_i, tools_used,
                   texts, telemetry_targets>>

----------------------------------------------------------------------------
(* TelemetryRequest (src/src/telemetry.rs)                                 *)

TelemetryModes == {"None", "OpenAI", "Generic"}

NoPost == [sent |-> FALSE, targets |-> <<>>, shape |-> "none", count |-> 0]

\* the bug of taking the OpenAI shape as soon as one message converts
MessagesOpenAiIfAnyConverts(msgs, conv) == \E k \in DOMAIN msgs : conv[k]

\* messages_openai: Some only if every message converts (conv[k] tells
\* whether try_into succeeds on message k)
MessagesOpenAi(msgs, conv) == \A k \in DOMAIN msgs : conv[k]

\* format: the shape of TelemetryPost.data.messages
Format(mode, msgs, conv) ==
    CASE mode = "OpenAI" ->
            IF MessagesOpenAi(msgs, conv) THEN "OpenAi" ELSE "Generic"
      [] mode = "Generic" -> "Generic"
      [] OTHER -> "panic"

SendChecksMessagesFirst(targets, msgs, mode, conv, remote_ok) ==
    IF msgs = <<>> THEN [result |-> "EmptyMessages", post |-> NoPost]
    ELSE IF targets = <<>> THEN [result |-> "EmptyTargets", post |-> NoPost]
    ELSE IF Format(mode, msgs, conv) = "panic"
         THEN [result |-> "panic", post |-> NoPost]
    ELSE [result |-> IF remote_ok THEN "Ok" ELSE "Request",
          post |-> [sent |-> TRUE, targets |-> targets,
                    shape |-> Format(mode, msgs, conv),
                    count |-> Len(msgs)]]

\* send: the Result it returns and the add_telemetry request it issued
Send(targets, msgs, mode, conv, remote_ok) ==
    IF targets = <<>> THEN [result |-> "EmptyTargets", post |-> NoPost]
    ELSE IF msgs = <<>> THEN [result |-> "EmptyMessages", post |-> NoPost]
    ELSE IF Format(mode, msgs, conv) = "panic"
         THEN [result |-> "panic", post |-> NoPost]
    ELSE [result |-> IF remote_ok THEN "Ok" ELSE "Request",
          post |-> [sent |-> TRUE, targets |-> targets,
                    shape |-> Format(mode, msgs, conv),
                    count |-> Len(msgs)]]

----------------------------------------------------------------------------
(* Agent: completion request, tool calls, telemetry                        *)

\* what a tool can return
ToolOutputs ==
    {[parse |-> "SendMessageSuccess", message |-> "m1"],
     [parse |-> "Other", message |-> ""],
     [parse |-> "Err", message |-> ""]}

\* the bug of not looking at the name of the tool
FindTelemetryTargetsOfAnyTool(name, output) ==
    IF output.parse = "SendMessageSuccess"
    THEN <<[message_id |-> output.message, thread_id |-> "th1"]>>
    ELSE <<>>

\* find_telemetry_targets(name, output)
FindTelemetryTargets(name, output) ==
    IF name = CoralSendMessage /\ output.parse = "SendMessageSuccess"
    THEN <<[message_id |-> output.message, thread_id |-> "th1"]>>
    ELSE <<>>

\* the bug of not pushing the popped prompt back
PushResponseNoPrompt(msgs, choice) ==
    Append(Pop(msgs), AssistantTurn(choice))

\* the bug of pushing the prompt back after the assistant turn
PushResponsePromptLast(msgs, choice) ==
    Append(Append(Pop(msgs), AssistantTurn(choice)), Last(msgs))

\* lines 297-311: messages.pop() is the prompt, and after the request
\* messages.push(prompt); messages.push(Message::Assistant {..})
PushResponse(msgs, choice) ==
    LET prompt == Last(msgs)
        context == Pop(msgs)
    IN  Append(Append(context, prompt), AssistantTurn(choice))

\* lines 296-311: the last message is popped as the prompt, the completion
\* request succeeds, the prompt and the assistant turn are pushed
CompletionOk ==
    /\ pc = "completion"
    /\ messages # <<>>
    /\ \E choice \in model_outputs :
        /\ messages' = PushResponse(messages, choice)
        /\ resp' = choice
        /\ calls' = Append(calls, Call("completion", NoConn, TRUE,
                                       Last(messages).role))
    /\ choice_i' = 1
    /\ tools_used' = 0
    /\ texts' = <<>>
    /\ telemetry_targets' = <<>>
    /\ pc' = "choices"
    /\ completions' = completions + 1
    /\ UNCHANGED <<ledgerVars, requestVars, promptVars>>
    /\ UNCHANGED <<configVars, agentVars, loopVars, fetched, round_input, prev_tools,
                   prev_round>>
    /\ UNCHANGED <<conn_i, new_tools, result>>

\* the bug of issuing the failed completion request again
CompletionErrRetries ==
    /\ pc = "completion"
    /\ messages # <<>>
    /\ calls' = Append(calls, Call("completion", NoConn, FALSE,
                                   Last(messages).role))
    /\ completions' = completions + 1
    /\ UNCHANGED <<ledgerVars, requestVars, promptVars>>
    /\ UNCHANGED <<configVars, agentVars, loopVars, fetched, round_input, prev_tools,
                   prev_round>>
    /\ UNCHANGED roundVars

\* the completion request fails
CompletionErr ==
    /\ pc = "completion"
    /\ messages # <<>>
    /\ calls' = Append(calls, Call("completion", NoConn, FALSE,
                                   Last(messages).role))
    /\ messages' = Pop(messages)
    /\ ReturnErr("CompletionError")
    /\ completions' = completions + 1
    /\ UNCHANGED <<ledgerVars, requestVars, promptVars>>
    /\ UNCHANGED <<configVars, agentVars, loopVars, fetched, round_input, prev_tools,
                   prev_round>>
    /\ UNCHANGED <<conn_i, new_tools, resp, choice_i, tools_used, texts,
                   telemetry_targets>>

\* the bug of going through the content items from the last one
ItemFromTheEnd == resp[Len(resp) + 1 - choice_i]

\* the content item the for loop is at
Item == resp[choice_i]
AtItem(kind) ==
    /\ pc = "choices"
    /\ choice_i <= Len(resp)
    /\ Item.kind = kind

\* AssistantContent::ToolCall, the tool returns output
ChoiceToolCallOk ==
    /\ AtItem("ToolCall")
    /\ tools[Item.name] # NoConn
    /\ \E output \in ToolOutputs :
        /\ telemetry_targets' =
               telemetry_targets \o FindTelemetryTargets(Item.name, output)
        /\ calls' = Append(calls, Call("call_tool", tools[Item.name], TRUE,
                                       Item.name))
    /\ tools_used' = tools_used + 1
    /\ messages' = Append(messages, ToolResultTurn(Item))
    /\ choice_i' = choice_i + 1
    /\ UNCHANGED <<ledgerVars, requestVars, promptVars>>
    /\ UNCHANGED <<configVars, agentVars, loopVars, fetched, round_input, prev_tools,
                   prev_round, completions>>
    /\ UNCHANGED <<pc, conn_i, new_tools, resp, texts, result>>

\* the bug of going on with a default tool result after a failed call
ChoiceToolCallErrSubstitutes ==
    /\ AtItem("ToolCall")
    /\ tools_used' = tools_used + 1
    /\ calls' = Append(calls, Call("call_tool", tools[Item.name], FALSE,
                                   Item.name))
    /\ messages' = Append(messages, ToolResultTurn(Item))
    /\ choice_i' = choice_i + 1
    /\ UNCHANGED <<ledgerVars, requestVars, promptVars>>
    /\ UNCHANGED <<configVars, agentVars, loopVars, fetched, round_input,
                   prev_tools, prev_round, completions>>
    /\ UNCHANGED <<pc, conn_i, new_tools, resp, texts, telemetry_targets,
                   result>>

\* AssistantContent::ToolCall, the call fails (the tool is not in the
\* ToolSet, or the tool itself fails)
ChoiceToolCallErr ==
    /\ AtItem("ToolCall")
    /\ tools_used' = tools_used + 1
    /\ calls' = Append(calls, Call("call_tool", tools[Item.name], FALSE,
                                   Item.name))
    /\ ReturnErr("ToolsetError")
    /\ UNCHANGED <<ledgerVars, requestVars, promptVars>>
    /\ UNCHANGED <<configVars, agentVars, loopVars, fetched, round_input, prev_tools,
                   prev_round, completions>>
    /\ UNCHANGED <<conn_i, new_tools, messages, resp, choice_i, texts,
                   telemetry_targets>>

\* AssistantContent::Text
ChoiceText ==
    /\ AtItem("Text")
    /\ texts' = Append(texts, Item.id)
    /\ choice_i' = choice_i + 1
    /\ UNCHANGED <<ledgerVars, requestVars, promptVars>>
    /\ UNCHANGED <<configVars, agentVars, loopVars, obsVars>>
    /\ UNCHANGED <<pc, conn_i, new_tools, messages, resp, tools_used,
                   telemetry_targets, result>>

\* the bug of taking every other content item for a text
ChoiceOtherAsText ==
    /\ pc = "choices"
    /\ choice_i <= Len(resp)
    /\ Item.kind \notin {"ToolCall", "Text"}
    /\ texts' = Append(texts, Item.id)
    /\ choice_i' = choice_i + 1
    /\ UNCHANGED <<ledgerVars, requestVars, promptVars>>
    /\ UNCHANGED <<configVars, agentVars, loopVars, obsVars>>
    /\ UNCHANGED <<pc, conn_i, new_tools, messages, resp, tools_used,
                   telemetry_targets, result>>

\* any other content item
ChoiceOther ==
    /\ pc = "choices"
    /\ choice_i <= Len(resp)
    /\ Item.kind \notin {"ToolCall", "Text"}
    /\ choice_i' = choice_i + 1
    /\ UNCHANGED <<ledgerVars, requestVars, promptVars>>
    /\ UNCHANGED <<configVars, agentVars, loopVars, obsVars>>
    /\ UNCHANGED <<pc, conn_i, new_tools, messages, resp, tools_used, texts,
                   telemetry_targets, result>>

\* the condition of line 355
WantsTelemetry == telemetry_targets # <<>> /\ telemetry # "None"

\* the bug of `?` on the result of send_telemetry
ReturnTelemetryErrorFails ==
    /\ pc = "choices"
    /\ choice_i > Len(resp)
    /\ WantsTelemetry
    /\ \E all_convert \in BOOLEAN, remote_ok \in BOOLEAN :
        LET sent == Send(telemetry_targets, messages, telemetry,
                         [k \in DOMAIN messages |-> all_convert], remote_ok)
        IN  /\ calls' = Append(calls, Call("add_telemetry", NoConn,
                                           sent.result = "Ok",
                                           sent.post.shape))
            /\ result' = IF sent.result = "Ok"
                         THEN Ok(messages, texts, tools_used)
                         ELSE Err("TelemetryError")
    /\ pc' = "returned"
    /\ UNCHANGED <<ledgerVars, requestVars, promptVars>>
    /\ UNCHANGED <<configVars, agentVars, loopVars, fetched, round_input, prev_tools,
                   prev_round, completions>>
    /\ UNCHANGED <<conn_i, new_tools, messages, resp, choice_i, tools_used,
                   texts, telemetry_targets>>

\* lines 355-363 with telemetry: send_telemetry, whose outcome is only
\* logged, then Ok(CompletionResult)
ReturnWithTelemetry ==
    /\ pc = "choices"
    /\ choice_i > Len(resp)
    /\ WantsTelemetry
    /\ \E all_convert \in BOOLEAN, remote_ok \in BOOLEAN :
        LET sent == Send(telemetry_targets, messages, telemetry,
                         [k \in DOMAIN messages |-> all_convert], remote_ok)
        IN  calls' = IF sent.post.sent
                     THEN Append(calls, Call("add_telemetry", NoConn,
                                             sent.result = "Ok",
                                             sent.post.shape))
                     ELSE calls
    /\ pc' = "returned"
    /\ result' = Ok(messages, texts, tools_used)
    /\ UNCHANGED <<ledgerVars, requestVars, promptVars>>
    /\ UNCHANGED <<configVars, agentVars, loopVars, fetched, round_input, prev_tools,
                   prev_round, completions>>
    /\ UNCHANGED <<conn_i, new_tools, messages, resp, choice_i, tools_used,
                   texts, telemetry_targets>>

\* the bug of submitting a report whatever the targets and the mode
ReturnOkWithReport ==
    /\ pc = "choices"
    /\ choice_i > Len(resp)
    /\ ~WantsTelemetry
    /\ calls' = Append(calls, Call("add_telemetry", NoConn, TRUE, "Generic"))
    /\ pc' = "returned"
    /\ result' = Ok(messages, texts, tools_used)
    /\ UNCHANGED <<ledgerVars, requestVars, promptVars>>
    /\ UNCHANGED <<configVars, agentVars, loopVars, fetched, round_input,
                   prev_tools, prev_round, completions>>
    /\ UNCHANGED <<conn_i, new_tools, messages, resp, choice_i, tools_used,
                   texts, telemetry_targets>>

\* lines 355-363 without telemetry
ReturnOk ==
    /\ pc = "choices"
    /\ choice_i > Len(resp)
    /\ ~WantsTelemetry
    /\ pc' = "returned"
    /\ result' = Ok(messages, texts, tools_used)
    /\ UNCHANGED <<ledgerVars, requestVars, promptVars>>
    /\ UNCHANGED <<configVars, agentVars, loopVars, obsVars>>
    /\ UNCHANGED <<conn_i, new_tools, messages, resp, choice_i, tools_used,
                   texts, telemetry_targets>>

\* the steps of one run_completion call after its entry
Round ==
    \/ ToolingSkip
    \/ ToolingFetchOk
    \/ ToolingFetchErr
    \/ ToolingMerge
    \/ ResourcesSkip
    \/ ResourcesFetchOk
    \/ ResourcesFetchErr
    \/ CompletionOk
    \/ CompletionErr
    \/ ChoiceToolCallOk
    \/ ChoiceToolCallErr
    \/ ChoiceText
    \/ ChoiceOther
    \/ ReturnWithTelemetry
    \/ ReturnOk

----------------------------------------------------------------------------
(* AgentLoop::execute with an IterationPromptProvider                      *)

\* the bug of comparing the quota with the depth of the next round
AfterRoundOffByOne(used, d, quota) ==
    IF used = 0 THEN "no tools used"
    ELSE IF Some(d + 1) = quota THEN "tool quota reached"
    ELSE "continue"

\* the bug of checking the quota before the tools used
AfterRoundQuotaFirst(used, d, quota) ==
    IF Some(d) = quota THEN "tool quota reached"
    ELSE IF used = 0 THEN "no tools used"
    ELSE "continue"

\* the bug of going on with the inner loop after a round without tool calls
AfterRoundIgnoresToolsUsed(used, d, quota) ==
    IF Some(d) = quota THEN "tool quota reached"
    ELSE "continue"

\* lines 145-153: how the inner loop goes on after a successful round
AfterRound(used, d, quota) ==
    IF used = 0 THEN "no tools used"
    ELSE IF Some(d) = quota THEN "tool quota reached"
    ELSE "continue"

\* IterationPromptProvider::finished
Finished == iteration_count >= iteration_max

\* lines 125-131: the next prompt is requested and pushed
LoopPrompt ==
    /\ pc = "loop_prompt"
    /\ iteration_count' = iteration_count + 1
    /\ iterations' = iterations + 1
    /\ messages' = Append(messages, UserText)
    /\ depth' = 0
    /\ log' = "prompt"
    /\ pc' = "inner_loop"
    /\ UNCHANGED <<ledgerVars, requestVars, promptVars>>
    /\ UNCHANGED <<configVars, agentVars, obsVars>>
    /\ UNCHANGED <<conn_i, new_tools, resp, choice_i, tools_used, texts,
                   telemetry_targets, result>>

\* lines 133-139: one more inner round is started
StartRound ==
    /\ pc = "inner_loop"
    /\ depth < DepthCap
    /\ depth' = depth + 1
    /\ EnterRunCompletion(messages)
    /\ UNCHANGED <<ledgerVars, requestVars, promptVars>>
    /\ UNCHANGED <<configVars, iterations, iteration_count, log>>

\* the bug of running the failed round again
LoopRoundErrRetries ==
    /\ pc = "returned"
    /\ ~result.ok
    /\ pc' = "inner_loop"
    /\ UNCHANGED <<ledgerVars, requestVars, promptVars>>
    /\ UNCHANGED <<configVars, agentVars, loopVars, obsVars>>
    /\ UNCHANGED <<conn_i, new_tools, messages, resp, choice_i, tools_used,
                   texts, telemetry_targets, result>>

\* line 139, `?`: a failed round ends execute with its error
LoopRoundErr ==
    /\ pc = "returned"
    /\ ~result.ok
    /\ pc' = "failed"
    /\ UNCHANGED <<ledgerVars, requestVars, promptVars>>
    /\ UNCHANGED <<configVars, agentVars, loopVars, obsVars>>
    /\ UNCHANGED <<conn_i, new_tools, messages, resp, choice_i, tools_used,
                   texts, telemetry_targets, result>>

\* lines 144-153 with the outcome `how`
LoopRoundOk(how) ==
    /\ pc = "returned"
    /\ result.ok
    /\ AfterRound(result.tools_used, depth, iteration_tool_quota) = how
    /\ messages' = result.messages
    /\ log' = how
    /\ pc' = IF how = "continue" THEN "inner_loop" ELSE "finished_check"
    /\ UNCHANGED <<ledgerVars, requestVars, promptVars>>
    /\ UNCHANGED <<configVars, agentVars, obsVars>>
    /\ UNCHANGED <<depth, iterations, iteration_count>>
    /\ UNCHANGED <<conn_i, new_tools, resp, choice_i, tools_used, texts,
                   telemetry_targets, result>>

LoopNoTools == LoopRoundOk("no tools used")
LoopQuotaReached == LoopRoundOk("tool quota reached")
LoopContinue == LoopRoundOk("continue")

\* the bug of ending the loop without asking the prompt provider
LoopFinishedSkipsCheck ==
    /\ pc = "finished_check"
    /\ pc' = "done"
    /\ UNCHANGED <<ledgerVars, requestVars, promptVars>>
    /\ UNCHANGED <<configVars, agentVars, loopVars, obsVars>>
    /\ UNCHANGED <<conn_i, new_tools, messages, resp, choice_i, tools_used,
                   texts, telemetry_targets, result>>

\* lines 156-158: the prompt provider is asked whether the loop is finished
LoopFinished ==
    /\ pc = "finished_check"
    /\ pc' = IF Finished THEN "done" ELSE "loop_prompt"
    /\ UNCHANGED <<ledgerVars, requestVars, promptVars>>
    /\ UNCHANGED <<configVars, agentVars, loopVars, obsVars>>
    /\ UNCHANGED <<conn_i, new_tools, messages, resp, choice_i, tools_used,
                   texts, telemetry_targets, result>>

----------------------------------------------------------------------------
(* ClaimManager (src/src/claim_manager.rs)                                 *)

MICRO_CORAL_TO_CORAL == 1000000

\* AgentClaimAmount: a value tagged with its unit.  The f64 values of Usd and
\* Coral are whole numbers here, so every conversion below is exact.
Usd(v) == [unit |-> "Usd", v |-> v]
MicroCoral(v) == [unit |-> "MicroCoral", v |-> v]
Coral(v) == [unit |-> "Coral", v |-> v]

\* AgentClaimAmount::is_zero
IsZero(amount) == amount.v = 0

\* AgentClaimAmount::mul
Mul(amount, n) == [unit |-> amount.unit, v |-> amount.v * n]

\* an entry of custom_tool_cost, absent or present
NoCost == [some |-> FALSE, cost |-> MicroCoral(0)]
SomeCost(c) == [some |-> TRUE, cost |-> c]

\* ClaimManager::new
ClaimManagerNew ==
    [input_token_cost |-> MicroCoral(0),
     output_token_cost |-> MicroCoral(0),
     min_budget |-> MicroCoral(0),
     base_tool_call_cost |-> MicroCoral(0),
     custom_tool_cost |-> [n \in ToolNames |-> NoCost],
     base_iteration_cost |-> MicroCoral(0),
     base_tool_iteration_cost |-> MicroCoral(0),
     exit_on_budget_exhausted |-> TRUE]

\* rig::completion::Usage
Usage(i, o, t) == [input_tokens |-> i, output_tokens |-> o, total_tokens |-> t]

NoOp == [name |-> "none", tool |-> "", usage |-> Usage(0, 0, 0)]
NoBudget == [ok |-> FALSE, remaining_budget |-> 0, coral_usd_price |-> 1]

\* the conversion rates and remaining budgets the remote ledger answers with
Prices == {1, 2}

\* line 299: CORAL_SEND_CLAIMS must be "1"
SendClaimsAlways == TRUE
SendClaims == send_claims = "1"

\* lines 303-306: zero claims are not sent
SendsZeroClaim(amount) == FALSE
SkipsZeroClaim(amount) == IsZero(amount)

\* line 317
ExitAlways == TRUE
ExitOnBudgetExhausted == claim_manager.exit_on_budget_exhausted

\* lines 322-328: the floor in micro units (`as i64` of an exact value)
MinMicro(price) ==
    LET min_budget == claim_manager.min_budget
    IN  CASE min_budget.unit = "Coral" -> min_budget.v * MICRO_CORAL_TO_CORAL
          [] min_budget.unit = "MicroCoral" -> min_budget.v
          [] min_budget.unit = "Usd" ->
                (min_budget.v * MICRO_CORAL_TO_CORAL) \div price

\* line 330
RemainingStrictlyBelowFloor(b) == b.remaining_budget < MinMicro(b.coral_usd_price)
RemainingAtOrBelowFloor(b) == b.remaining_budget <= MinMicro(b.coral_usd_price)

RemainingBudgets(price) ==
    {-1} \cup {MinMicro(price) + d : d \in {-1, 0, 1}}

\* a ledger operation is entered: the `claim` calls it makes, in order, as
\* long as none of them fails
EnterLedgerOp(op, amounts) ==
    /\ ledger_pc = "idle"
    /\ ledger_op' = op
    /\ pending' = amounts
    /\ claims_sent' = <<>>
    /\ budget' = NoBudget
    /\ ledger_result' = "none"
    /\ ledger_pc' = "claiming"
    /\ UNCHANGED <<claim_manager, send_claims, engineVars, requestVars,
                 promptVars>>

\* the bug of billing a combined total at the input cost
TokenClaimsTotalAtInputCost(usage) ==
    IF IsZero(claim_manager.input_token_cost)
       /\ IsZero(claim_manager.output_token_cost)
    THEN <<>>
    ELSE IF usage.input_tokens + usage.output_tokens # usage.total_tokens
    THEN <<Mul(claim_manager.input_token_cost, usage.total_tokens)>>
    ELSE IF usage.total_tokens = 0
    THEN <<>>
    ELSE <<Mul(claim_manager.input_token_cost, usage.input_tokens),
           Mul(claim_manager.output_token_cost, usage.output_tokens)>>

\* claim_tokens (lines 197-240)
TokenClaims(usage) ==
    IF IsZero(claim_manager.input_token_cost)
       /\ IsZero(claim_manager.output_token_cost)
    THEN <<>>
    ELSE IF usage.input_tokens + usage.output_tokens # usage.total_tokens
    THEN <<Mul(claim_manager.output_token_cost, usage.total_tokens)>>
    ELSE IF usage.total_tokens = 0
    THEN <<>>
    ELSE <<Mul(claim_manager.input_token_cost, usage.input_tokens),
           Mul(claim_manager.output_token_cost, usage.output_tokens)>>

ClaimTokens ==
    \E i \in 0..MaxTokens, o \in 0..MaxTokens, t \in 0..MaxTokens :
        EnterLedgerOp([name |-> "claim_tokens", tool |-> "",
                       usage |-> Usage(i, o, t)],
                      TokenClaims(Usage(i, o, t)))

\* claim_iteration (lines 244-255)
ClaimIteration ==
    EnterLedgerOp([name |-> "claim_iteration", tool |-> "",
                   usage |-> Usage(0, 0, 0)],
                  IF ~IsZero(claim_manager.base_iteration_cost)
                  THEN <<claim_manager.base_iteration_cost>>
                  ELSE <<>>)

\* claim_tool_iteration (lines 259-270)
ClaimToolIteration ==
    EnterLedgerOp([name |-> "claim_tool_iteration", tool |-> "",
                   usage |-> Usage(0, 0, 0)],
                  IF ~IsZero(claim_manager.base_tool_iteration_cost)
                  THEN <<claim_manager.base_tool_iteration_cost>>
                  ELSE <<>>)

\* claim_tool_call (lines 274-292): the custom cost is passed to `claim`
\* twice
ToolCallClaims(name) ==
    (IF ~IsZero(claim_manager.base_tool_call_cost)
     THEN <<claim_manager.base_tool_call_cost>>
     ELSE <<>>)
    \o (IF claim_manager.custom_tool_cost[name].some
        THEN <<claim_manager.custom_tool_cost[name].cost,
               claim_manager.custom_tool_cost[name].cost>>
        ELSE <<>>)

ClaimToolCall ==
    \E name \in ToolNames :
        EnterLedgerOp([name |-> "claim_tool_call", tool |-> name,
                       usage |-> Usage(0, 0, 0)],
                      ToolCallClaims(name))

\* claim (lines 299-306): returns Ok(()) without a request
ClaimLocal ==
    /\ ledger_pc = "claiming"
    /\ pending # <<>>
    /\ ~SendClaims \/ SkipsZeroClaim(Head(pending))
    /\ pending' = Tail(pending)
    /\ UNCHANGED <<claim_manager, send_claims, ledger_pc, ledger_op,
                   claims_sent, budget, ledger_result>>
    /\ UNCHANGED <<engineVars, requestVars, promptVars>>

\* claim (lines 308-335): claim_payment answers with the remaining budget
ClaimRemoteOk ==
    /\ ledger_pc = "claiming"
    /\ pending # <<>>
    /\ SendClaims
    /\ ~SkipsZeroClaim(Head(pending))
    /\ \E price \in Prices :
        \E remaining \in RemainingBudgets(price) :
            LET b == [ok |-> TRUE, remaining_budget |-> remaining,
                      coral_usd_price |-> price]
            IN  /\ budget' = b
                /\ IF ExitOnBudgetExhausted /\ RemainingAtOrBelowFloor(b)
                   THEN /\ ledger_result' = "BudgetExhausted"
                        /\ pending' = <<>>
                        /\ ledger_pc' = "returned"
                   ELSE /\ pending' = Tail(pending)
                        /\ UNCHANGED <<ledger_result, ledger_pc>>
    /\ claims_sent' = Append(claims_sent, Head(pending))
    /\ UNCHANGED <<claim_manager, send_claims, ledger_op>>
    /\ UNCHANGED <<engineVars, requestVars, promptVars>>

\* claim with the error of claim_payment dropped: the operation goes on to
\* its next claim
ClaimRemoteErrContinues ==
    /\ ledger_pc = "claiming"
    /\ pending # <<>>
    /\ SendClaims
    /\ ~SkipsZeroClaim(Head(pending))
    /\ claims_sent' = Append(claims_sent, Head(pending))
    /\ budget' = NoBudget
    /\ pending' = Tail(pending)
    /\ UNCHANGED <<claim_manager, send_claims, ledger_op, ledger_result,
                   ledger_pc>>
    /\ UNCHANGED <<engineVars, requestVars, promptVars>>

\* claim (lines 308-314): claim_payment fails
ClaimRemoteErr ==
    /\ ledger_pc = "claiming"
    /\ pending # <<>>
    /\ SendClaims
    /\ ~SkipsZeroClaim(Head(pending))
    /\ claims_sent' = Append(claims_sent, Head(pending))
    /\ budget' = NoBudget
    /\ ledger_result' = "ApiError"
    /\ pending' = <<>>
    /\ ledger_pc' = "returned"
    /\ UNCHANGED <<claim_manager, send_claims, ledger_op>>
    /\ UNCHANGED <<engineVars, requestVars, promptVars>>

\* the trailing Ok(()) of a ledger operation
LedgerOpOk ==
    /\ ledger_pc = "claiming"
    /\ pending = <<>>
    /\ ledger_result' = "Ok"
    /\ ledger_pc' = "returned"
    /\ UNCHANGED <<claim_manager, send_claims, ledger_op, pending,
                   claims_sent, budget>>
    /\ UNCHANGED <<engineVars, requestVars, promptVars>>

\* the run that owns the ledger goes on after a successful operation
RunContinues ==
    /\ ledger_pc = "returned"
    /\ ledger_result = "Ok"
    /\ ledger_pc' = "idle"
    /\ ledger_op' = NoOp
    /\ claims_sent' = <<>>
    /\ budget' = NoBudget
    /\ ledger_result' = "none"
    /\ UNCHANGED <<claim_manager, send_claims, pending>>
    /\ UNCHANGED <<engineVars, requestVars, promptVars>>

\* and ends with the first error of an operation
RunTerminates ==
    /\ ledger_pc = "returned"
    /\ ledger_result # "Ok"
    /\ ledger_pc' = "terminated"
    /\ UNCHANGED <<claim_manager, send_claims, ledger_op, pending,
                   claims_sent, budget, ledger_result>>
    /\ UNCHANGED <<engineVars, requestVars, promptVars>>

\* a ClaimManager that is attached to no run
LedgerIdle ==
    /\ claim_manager = ClaimManagerNew
    /\ send_claims = "unset"
    /\ ledger_pc = "idle"
    /\ ledger_op = NoOp
    /\ pending = <<>>
    /\ claims_sent = <<>>
    /\ budget = NoBudget
    /\ ledger_result = "none"

----------------------------------------------------------------------------
(* A TelemetryRequest sent on its own                                      *)

NoRequest ==
    [targets |-> <<>>, messages |-> <<>>, telemetry_mode |-> "OpenAI",
     converts |-> <<>>]

NotSent == [result |-> "none", post |-> NoPost]

\* TelemetryRequest::send, the add_telemetry request succeeding or not
SendRequest ==
    /\ send_result = NotSent
    /\ \E remote_ok \in BOOLEAN :
        send_result' = Send(request.targets, request.messages,
                            request.telemetry_mode, request.converts,
                            remote_ok)
    /\ send_result'.result # "panic"
    /\ UNCHANGED <<request, engineVars, ledgerVars, promptVars>>

\* format panics in mode None: send never returns
SendPanics ==
    /\ send_result = NotSent
    /\ Send(request.targets, request.messages, request.telemetry_mode,
            request.converts, TRUE).result = "panic"
    /\ send_result' = [result |-> "panic", post |-> NoPost]
    /\ UNCHANGED <<request, engineVars, ledgerVars, promptVars>>

RequestIdle ==
    /\ request = NoRequest
    /\ send_result = NotSent

----------------------------------------------------------------------------
(* CompletionEvaluatedPrompt (src/src/completion_evaluated_prompt.rs)      *)

\* a String is a sequence of characters
NewLine == "\n"
Strings == {<<>>, <<"a">>, <<"b", NewLine>>}

\* PromptPart
StringPart(s) == [kind |-> "String", string |-> s, conn |-> NoConn, uri |-> ""]
ResourcePart(c, uri) == [kind |-> "Resource", string |-> <<>>, conn |-> c, uri |-> uri]
AllResourcesPart(c) == [kind |-> "AllResources", string |-> <<>>, conn |-> c, uri |-> ""]

\* ResourceContents with its text or blob
TextResourceContents(text) == [kind |-> "text", data |-> text]
BlobResourceContents(blob) == [kind |-> "blob", data |-> blob]

\* what read_resource and get_resources can return
ResourceContentLists ==
    {<<>>, <<TextResourceContents(<<"x">>), BlobResourceContents(<<"y">>)>>}

RECURSIVE JoinLines(_)
\* Vec<String>::join("\n")
JoinLines(strings) ==
    IF strings = <<>> THEN <<>>
    ELSE IF Len(strings) = 1 THEN strings[1]
         ELSE strings[1] \o <<NewLine>> \o JoinLines(Tail(strings))

\* resource_contents_to_string (lines 100-112)
ResourceContentsToString(resource_contents) ==
    JoinLines([k \in DOMAIN resource_contents |-> resource_contents[k].data])

\* the bug of separating the parts instead of ending each of them
PushPartSeparated(buf, expansion) ==
    IF buf = <<>> THEN expansion ELSE buf \o <<NewLine>> \o expansion

\* lines 125-142: buffer.push_str(expansion); buffer.push('\n')
PushPart(buf, expansion) == buf \o expansion \o <<NewLine>>

NoEvaluation == [ok |-> FALSE, string |-> <<>>, read |-> <<>>]

\* the bug of evaluating into the buffer of the previous evaluation
EvaluateKeepsBuffer ==
    /\ prompt_pc = "idle"
    /\ Len(evaluated) < MaxEvaluations
    /\ part_i' = 1
    /\ read' = <<>>
    /\ prompt_pc' = "parts"
    /\ UNCHANGED <<completion_prompt, buffer, evaluated>>
    /\ UNCHANGED <<engineVars, ledgerVars, requestVars>>

\* line 123: evaluate is called, let mut buffer = String::new()
Evaluate ==
    /\ prompt_pc = "idle"
    /\ Len(evaluated) < MaxEvaluations
    /\ buffer' = <<>>
    /\ part_i' = 1
    /\ read' = <<>>
    /\ prompt_pc' = "parts"
    /\ UNCHANGED <<completion_prompt, evaluated>>
    /\ UNCHANGED <<engineVars, ledgerVars, requestVars>>

\* the part the for loop is at
Part == completion_prompt.parts[part_i]
AtPart(kind) ==
    /\ prompt_pc = "parts"
    /\ part_i <= Len(completion_prompt.parts)
    /\ Part.kind = kind

\* the loop goes on with the expansion of the part pushed
PartDone(expansion, contents) ==
    /\ buffer' = PushPart(buffer, expansion)
    /\ read' = Append(read, contents)
    /\ part_i' = part_i + 1
    /\ UNCHANGED <<completion_prompt, prompt_pc, evaluated>>
    /\ UNCHANGED <<engineVars, ledgerVars, requestVars>>

\* `?` on a failed read: evaluate returns the error
PartErr ==
    /\ evaluated' = Append(evaluated, NoEvaluation)
    /\ prompt_pc' = "idle"
    /\ UNCHANGED <<completion_prompt, buffer, part_i, read>>
    /\ UNCHANGED <<engineVars, ledgerVars, requestVars>>

\* PromptPart::String (line 127)
PartString ==
    /\ AtPart("String")
    /\ PartDone(Part.string, <<>>)

\* PromptPart::Resource (lines 128-133), read_resource succeeds
PartResourceOk ==
    /\ AtPart("Resource")
    /\ \E contents \in ResourceContentLists :
        PartDone(ResourceContentsToString(contents), contents)

\* PromptPart::Resource, read_resource fails
PartResourceErr ==
    /\ AtPart("Resource")
    /\ PartErr

\* PromptPart::AllResources (lines 134-138), get_resources succeeds
PartAllResourcesOk ==
    /\ AtPart("AllResources")
    /\ \E contents \in ResourceContentLists :
        PartDone(ResourceContentsToString(contents), contents)

\* PromptPart::AllResources, get_resources fails
PartAllResourcesErr ==
    /\ AtPart("AllResources")
    /\ PartErr

\* line 145: Ok(buffer)
EvaluateOk ==
    /\ prompt_pc = "parts"
    /\ part_i > Len(completion_prompt.parts)
    /\ evaluated' = Append(evaluated,
                           [ok |-> TRUE, string |-> buffer, read |-> read])
    /\ prompt_pc' = "idle"
    /\ UNCHANGED <<completion_prompt, buffer, part_i, read>>
    /\ UNCHANGED <<engineVars, ledgerVars, requestVars>>

\* CompletionEvaluatedPrompt::new
PromptNew == [parts |-> <<>>]

\* no prompt is being evaluated
PromptIdle ==
    /\ completion_prompt = PromptNew
    /\ buffer = <<>>
    /\ part_i = 0
    /\ prompt_pc = "idle"
    /\ evaluated = <<>>
    /\ read = <<>>

----------------------------------------------------------------------------
(* Specifications of the engine                                            *)

Flags(st, rt, sr, rr) ==
    [skip_tooling |-> st, revalidate_tooling |-> rt,
     skip_resources |-> sr, revalidate_resources |-> rr]

FlagSets ==
    [skip_tooling : BOOLEAN, revalidate_tooling : BOOLEAN,
     skip_resources : BOOLEAN, revalidate_resources : BOOLEAN]

\* McpConnectionBuilder defaults, and a connection without tools or resources
DefaultFlags == Flags(FALSE, FALSE, FALSE, FALSE)
SkipAllFlags == Flags(TRUE, FALSE, TRUE, FALSE)

Quotas == {None} \cup {Some(q) : q \in 0..MaxQuota}

\* Agent::new, Agent::mcp_server, AgentLoop::new, IterationPromptProvider::new
AgentInit ==
    /\ tools_validated = [c \in Conns |-> FALSE]
    /\ resources_validated = [c \in Conns |-> FALSE]
    /\ revalidating_tooling = {}
    /\ revalidating_resources = {}
    /\ static_tools = <<>>
    /\ tools = [n \in ToolNames |-> NoConn]
    /\ static_context = <<>>
    /\ conn_i = 0
    /\ new_tools = <<>>
    /\ messages = <<>>
    /\ resp = <<>>
    /\ choice_i = 0
    /\ tools_used = 0
    /\ texts = <<>>
    /\ telemetry_targets = <<>>
    /\ result = NoResult
    /\ calls = <<>>
    /\ fetched = {}
    /\ round_input = <<>>
    /\ prev_tools = [n \in ToolNames |-> NoConn]
    /\ prev_round = NoRound
    /\ completions = 0
    /\ depth = 0
    /\ iterations = 0
    /\ iteration_count = 0
    /\ log = "start"
    /\ pc = "loop_prompt"

\* an engine that runs without a ledger
EngineInit ==
    /\ AgentInit
    /\ LedgerIdle
    /\ RequestIdle
    /\ PromptIdle

\* every scheduling configuration, over one default connection and one
\* connection that is skipped
Init ==
    /\ EngineInit
    /\ conn_flags = [c \in Conns |-> IF c = 1 THEN DefaultFlags ELSE SkipAllFlags]
    /\ telemetry \in TelemetryModes
    /\ iteration_tool_quota \in Quotas
    /\ iteration_max \in 0..MaxIterations
    /\ model_outputs = LoopOutputs

Next ==
    \/ LoopPrompt
    \/ StartRound
    \/ Round
    \/ LoopRoundErr
    \/ LoopNoTools
    \/ LoopQuotaReached
    \/ LoopContinue
    \/ LoopFinished

vars == <<engineVars, ledgerVars, requestVars, promptVars>>

Spec == Init /\ [][Next]_vars

\* every combination of connection policies, over a short run
RefreshInit ==
    /\ EngineInit
    /\ conn_flags \in [Conns -> FlagSets]
    /\ telemetry = "OpenAI"
    /\ iteration_tool_quota = Some(2)
    /\ iteration_max = 1
    /\ model_outputs = SmallOutputs

SpecRefresh == RefreshInit /\ [][Next]_vars

\* every completion response, over default connections and a short run
RoundInit ==
    /\ EngineInit
    /\ conn_flags = [c \in Conns |-> IF c = 1 THEN DefaultFlags ELSE SkipAllFlags]
    /\ telemetry \in TelemetryModes
    /\ iteration_tool_quota = Some(2)
    /\ iteration_max = 1
    /\ model_outputs = AllOutputs

SpecRound == RoundInit /\ [][Next]_vars

----------------------------------------------------------------------------
(* Properties of a round and of the scheduler                              *)

\* the number of tool calls among the content items of a response
NumToolCalls(choice) ==
    Cardinality({k \in DOMAIN choice : choice[k].kind = "ToolCall"})

RoundSucceeded == pc = "returned" /\ result.ok

\* C1, as stated: a successful round with k tool calls returns a history of
\* length n + 2 + k, n being the length of the history it was given
C1_LengthPlusTwo ==
    RoundSucceeded =>
        Len(result.messages) = Len(round_input) + 2 + NumToolCalls(resp)

\* C1, amended: a successful round with k tool calls returns a history of
\* length n + 1 + k: the popped prompt is pushed back (it is one of the n),
\* then one assistant turn and one tool-result turn per tool call are added
C1_HistoryLength ==
    RoundSucceeded =>
        Len(result.messages) = Len(round_input) + 1 + NumToolCalls(resp)

\* a successful second round of a prompt with two tool calls
C1_Witness ==
    /\ RoundSucceeded
    /\ Len(round_input) >= 3
    /\ NumToolCalls(resp) = 2

\* the ToolSet is merged: the round is past validate_mcp_tooling
ToolSetMerged == pc \in {"validate_resources", "completion", "choices"}

\* C2: a tool that the previous round exposed from an always-revalidate
\* connection is in the merged ToolSet of this round only if this round's
\* refresh fetched it
C2_RevalidatedToolsAreFresh ==
    ToolSetMerged =>
        \A t \in ToolNames :
            (/\ prev_tools[t] # NoConn
             /\ conn_flags[prev_tools[t]].revalidate_tooling
             /\ tools[t] # NoConn)
            => t \in fetched

\* a second round that lost a tool of an always-revalidate connection and
\* kept (by fetching it again) another one
C2_Witness ==
    /\ pc = "completion"
    /\ \E t, u \in ToolNames :
        /\ prev_tools[t] # NoConn
        /\ conn_flags[prev_tools[t]].revalidate_tooling
        /\ tools[t] = NoConn
        /\ prev_tools[u] # NoConn
        /\ conn_flags[prev_tools[u]].revalidate_tooling
        /\ tools[u] # NoConn

ListCallsTo(op, c) == {k \in DOMAIN calls : calls[k].op = op /\ calls[k].conn = c}

\* C3: a connection flagged skip_tooling (skip_resources) has no tool in the
\* ToolSet (no document in the ResourceSet) and is never asked for its list,
\* whatever its revalidate flag
C3_SkippedConnectionsNeverExposed ==
    \A c \in Conns :
        /\ conn_flags[c].skip_tooling =>
            /\ \A t \in ToolNames : tools[t] # c
            /\ \A k \in DOMAIN new_tools : new_tools[k].conn # c
            /\ ListCallsTo("list_tools", c) = {}
            /\ ~tools_validated[c]
        /\ conn_flags[c].skip_resources =>
            /\ \A k \in DOMAIN static_context : static_context[k].conn # c
            /\ ListCallsTo("list_resources", c) = {}
            /\ ~resources_validated[c]

\* the second round of a run in which one connection is flagged skip and
\* always-revalidate, for tools and for resources, and the other connection
\* has given a tool and a document
C3_Witness ==
    /\ pc = "completion"
    /\ depth = 2
    /\ \E c, d \in Conns :
        /\ conn_flags[c].skip_tooling /\ conn_flags[c].revalidate_tooling
        /\ conn_flags[c].skip_resources /\ conn_flags[c].revalidate_resources
        /\ \E t \in ToolNames : tools[t] = d
        /\ \E k \in DOMAIN static_context : static_context[k].conn = d

QuotaIs(q) == iteration_tool_quota = Some(q)

\* C4: with a quota q >= 1, after a round that used a tool the scheduler
\* runs the next round of the prompt while fewer than q rounds were run, and
\* leaves the prompt as "tool quota reached" for the stop check after
\* exactly q rounds
C4_QuotaEndsPromptAfterQRounds ==
    [][\A q \in 1..MaxQuota :
        (QuotaIs(q) /\ RoundSucceeded /\ result.tools_used > 0) =>
            /\ depth <= q
            /\ depth < q => (pc' = "inner_loop" /\ depth' = depth)
            /\ depth = q => (/\ pc' = "finished_check"
                             /\ log' = "tool quota reached"
                             /\ depth' = depth)]_vars

\* a prompt that ended at its quota of MaxQuota rounds and is followed by the
\* next prompt
C4_Witness ==
    /\ QuotaIs(MaxQuota)
    /\ pc = "inner_loop"
    /\ iterations = 2
    /\ depth = 0
    /\ log = "prompt"
    /\ Len(messages) = 2 + MaxQuota * (1 + MaxItems)

\* C5: after a successful round that used no tool no further round of the
\* prompt is run (the stop check is next); after one that used a tool, and
\* unless the quota is reached, the next round of the prompt is run
C5_ToolsUsedDecidesNextRound ==
    [][/\ (RoundSucceeded /\ result.tools_used = 0) =>
            (pc' = "finished_check" /\ log' = "no tools used")
       /\ (RoundSucceeded /\ result.tools_used > 0
             /\ Some(depth) # iteration_tool_quota) => pc' = "inner_loop"
       /\ pc = "finished_check" => pc' \in {"loop_prompt", "done"}
       /\ pc = "inner_loop" => (pc' = "validate_tooling" /\ depth' = depth + 1)
      ]_vars

\* a prompt of exactly two rounds: MaxItems tool calls, then text only
C5_Witness ==
    /\ pc = "finished_check"
    /\ iterations = 1
    /\ depth = 2
    /\ log = "no tools used"
    /\ result.tools_used = 0
    /\ Len(messages) = 1 + (1 + MaxItems) + 1
    /\ NumToolCalls(messages[2].content) = MaxItems
    /\ NumToolCalls(Last(messages).content) = 0

----------------------------------------------------------------------------
(* Specifications of the ledger and of a telemetry request                 *)

\* the engine constructed and not started
EngineIdle ==
    /\ AgentInit
    /\ conn_flags = [c \in Conns |-> DefaultFlags]
    /\ telemetry = "None"
    /\ iteration_tool_quota = None
    /\ iteration_max = 0
    /\ model_outputs = SmallOutputs

\* the unit costs and floors a ClaimManager is configured with
Costs == {MicroCoral(0), MicroCoral(3)}
Floors == {MicroCoral(0), MicroCoral(100), Coral(1), Usd(1)}
CustomCosts == {NoCost} \cup {SomeCost(c) : c \in Costs}
EnvValues == {"unset", "0", "1"}

\* every configuration of the builder methods (lines 121-193), in every
\* environment
LedgerInit ==
    /\ EngineIdle
    /\ RequestIdle
    /\ PromptIdle
    /\ \E i \in Costs, o \in Costs, f \in Floors, b \in Costs,
          c \in CustomCosts, it \in Costs, ti \in Costs, e \in BOOLEAN :
        claim_manager =
            [input_token_cost |-> i,
             output_token_cost |-> o,
             min_budget |-> f,
             base_tool_call_cost |-> b,
             custom_tool_cost |->
                [n \in ToolNames |-> IF n = CoralSendMessage THEN c ELSE NoCost],
             base_iteration_cost |-> it,
             base_tool_iteration_cost |-> ti,
             exit_on_budget_exhausted |-> e]
    /\ send_claims \in EnvValues
    /\ ledger_pc = "idle"
    /\ ledger_op = NoOp
    /\ pending = <<>>
    /\ claims_sent = <<>>
    /\ budget = NoBudget
    /\ ledger_result = "none"

LedgerNext ==
    \/ ClaimTokens
    \/ ClaimIteration
    \/ ClaimToolIteration
    \/ ClaimToolCall
    \/ ClaimLocal
    \/ ClaimRemoteOk
    \/ ClaimRemoteErr
    \/ LedgerOpOk
    \/ RunContinues
    \/ RunTerminates

SpecLedger == LedgerInit /\ [][LedgerNext]_vars

\* the telemetry targets and message lists a request is built from
Targets == UNION {[1..k -> 1..MaxItems] : k \in 0..MaxItems}
MessageLists == UNION {[1..k -> {UserText}] : k \in 0..MaxItems}

\* TelemetryRequest::new and telemetry_mode, over every request
TelemetryInit ==
    /\ EngineIdle
    /\ LedgerIdle
    /\ PromptIdle
    /\ \E t \in Targets, m \in MessageLists, mode \in TelemetryModes :
        \E conv \in [DOMAIN m -> BOOLEAN] :
            request = [targets |-> t, messages |-> m,
                       telemetry_mode |-> mode, converts |-> conv]
    /\ send_result = NotSent

TelemetryNext ==
    \/ SendRequest
    \/ SendPanics

SpecTelemetry == TelemetryInit /\ [][TelemetryNext]_vars

\* the parts the builder methods string, resource and all_resources push
PromptParts ==
    {StringPart(s) : s \in Strings}
    \cup {ResourcePart(1, "r1"), AllResourcesPart(1)}

\* every prompt of up to MaxParts parts, built and not yet evaluated
PromptInit ==
    /\ EngineIdle
    /\ LedgerIdle
    /\ RequestIdle
    /\ completion_prompt \in {[parts |-> p] :
                      p \in UNION {[1..k -> PromptParts] : k \in 0..MaxParts}}
    /\ buffer = <<>>
    /\ part_i = 0
    /\ prompt_pc = "idle"
    /\ evaluated = <<>>
    /\ read = <<>>

PromptNext ==
    \/ Evaluate
    \/ PartString
    \/ PartResourceOk
    \/ PartResourceErr
    \/ PartAllResourcesOk
    \/ PartAllResourcesErr
    \/ EvaluateOk

SpecPrompt == PromptInit /\ [][PromptNext]_vars

----------------------------------------------------------------------------
(* Properties of the ledger                                                *)

\* the last claim was answered by the remote ledger
ClaimAnswered == claims_sent # <<>> /\ budget.ok

\* C6: when a non-zero claim is sent with exit_on_budget_exhausted enabled
\* and the remaining budget the remote returns is at or below the floor (in
\* micro units, equality included), the operation fails with
\* BudgetExhausted and the run terminates: the operation issues no further
\* claim and the run's only next step is its end.
C6_ExhaustedClaimEndsRun ==
    /\ [](ClaimAnswered /\ claim_manager.exit_on_budget_exhausted
          /\ budget.remaining_budget <= MinMicro(budget.coral_usd_price)
          => /\ ledger_result = "BudgetExhausted"
             /\ ledger_pc \in {"returned", "terminated"}
             /\ pending = <<>>)
    /\ [][ledger_result = "BudgetExhausted"
          => ledger_pc' = "terminated" /\ claims_sent' = claims_sent]_vars

\* C6 happens: the remote answers a claim with exactly the floor of 100
\* micro, and the run has ended with BudgetExhausted
C6_Witness ==
    /\ ledger_pc = "terminated"
    /\ ledger_result = "BudgetExhausted"
    /\ claim_manager.exit_on_budget_exhausted
    /\ claim_manager.min_budget = MicroCoral(100)
    /\ ClaimAnswered
    /\ budget.remaining_budget = 100

\* C7: with exit_on_budget_exhausted disabled no ledger operation returns
\* BudgetExhausted, whatever the remote reports; a non-zero claim is still
\* sent, and when the remote answers it the operation goes on.
C7_DisabledExitNeverExhausts ==
    /\ [](~claim_manager.exit_on_budget_exhausted
          => ledger_result # "BudgetExhausted")
    /\ [][~claim_manager.exit_on_budget_exhausted
          /\ ledger_pc = "claiming" /\ pending # <<>>
          /\ send_claims = "1" /\ Head(pending).v # 0
          => /\ claims_sent' = Append(claims_sent, Head(pending))
             /\ budget'.ok => ledger_pc' = "claiming"
                              /\ pending' = Tail(pending)]_vars

\* C7 happens: with the exit disabled an operation returned Ok although the
\* remote answered its claim with a remaining budget below the floor
C7_Witness ==
    /\ ~claim_manager.exit_on_budget_exhausted
    /\ ledger_pc = "returned"
    /\ ledger_result = "Ok"
    /\ ClaimAnswered
    /\ budget.remaining_budget < MinMicro(budget.coral_usd_price)

\* C8: for every ledger operation, configuration and usage, no claim_payment
\* request carries a zero amount.
C8_ZeroClaimsNeverSent ==
    \A k \in DOMAIN claims_sent : claims_sent[k].v # 0

\* C8 happens: claims are enabled, both token costs are non-zero, and
\* claim_tokens for 0 input and 1 output token returned after sending the
\* output claim only
C8_Witness ==
    /\ send_claims = "1"
    /\ ledger_pc = "returned"
    /\ ledger_result = "Ok"
    /\ ledger_op.name = "claim_tokens"
    /\ ledger_op.usage = Usage(0, 1, 1)
    /\ claim_manager.input_token_cost.v # 0
    /\ claim_manager.output_token_cost.v # 0
    /\ Len(claims_sent) = 1

\* C9: while CORAL_SEND_CLAIMS is not "1" no ledger operation issues a
\* claim_payment request, whatever the costs, and every ledger operation
\* returns success.
C9_ClaimsOffNothingSent ==
    send_claims # "1"
    => /\ claims_sent = <<>>
       /\ ledger_pc = "returned" => ledger_result = "Ok"
       /\ ledger_pc # "terminated"

\* C9 happens: with the switch unset, claim_tool_call of a tool with a
\* non-zero base cost and a non-zero custom cost returned
C9_Witness ==
    /\ send_claims = "unset"
    /\ ledger_pc = "returned"
    /\ ledger_op.name = "claim_tool_call"
    /\ ledger_op.tool = CoralSendMessage
    /\ claim_manager.base_tool_call_cost.v # 0
    /\ claim_manager.custom_tool_cost[CoralSendMessage].some
    /\ claim_manager.custom_tool_cost[CoralSendMessage].cost.v # 0

----------------------------------------------------------------------------
(* Properties of a telemetry request                                       *)

RequestSent == send_result # NotSent

\* C10: send with an empty target list fails with EmptyTargets, and with
\* targets but an empty message list fails with EmptyMessages; in both
\* cases no add_telemetry request is made.
C10_EmptyRequestFailsLocally ==
    RequestSent
    => /\ request.targets = <<>>
          => send_result.result = "EmptyTargets" /\ ~send_result.post.sent
       /\ request.targets # <<>> /\ request.messages = <<>>
          => send_result.result = "EmptyMessages" /\ ~send_result.post.sent

\* C10 happens: a request with targets and no messages has been sent
C10_Witness ==
    /\ RequestSent
    /\ request.targets # <<>>
    /\ request.messages = <<>>
    /\ request.telemetry_mode = "Generic"

----------------------------------------------------------------------------
(* Properties of the round's outcome and of the scheduler's control flow   *)

\* the external calls of the current round that are of kind op
CallsOf(op) == {k \in DOMAIN calls : calls[k].op = op}

\* the round ended by submitting telemetry, and the submission failed
TelemetryFailed ==
    /\ pc = "returned"
    /\ calls # <<>>
    /\ Last(calls).op = "add_telemetry"
    /\ ~Last(calls).ok

\* C11: a failed telemetry submission never fails the round: the step that
\* submits the telemetry returns Ok with the history, texts and tools_used
\* the round had before the submission, whatever the submission's outcome.
C11_TelemetryFailureNeverFailsRound ==
    /\ [](TelemetryFailed => result = Ok(messages, texts, tools_used))
    /\ [][pc = "choices" /\ choice_i > Len(resp) /\ WantsTelemetry
          => /\ pc' = "returned"
             /\ result' = Ok(messages, texts, tools_used)
             /\ UNCHANGED <<messages, texts, tools_used>>]_vars

\* C11 happens: a round with a telemetry target returned Ok after its
\* add_telemetry request failed
C11_Witness ==
    /\ TelemetryFailed
    /\ result.ok
    /\ result.tools_used > 0
    /\ telemetry_targets # <<>>

\* C12: a round that returns an error ends the scheduler with that error:
\* the only step after it is the end of execute, which requests no prompt,
\* starts no round, makes no external call and does not ask finished();
\* nothing follows the failure.
C12_RoundErrorEndsScheduler ==
    [][/\ pc = "returned" /\ ~result.ok
          => /\ pc' = "failed"
             /\ UNCHANGED <<result, calls, iterations, iteration_count, depth>>
       /\ pc # "failed"]_vars

\* C12 happens: execute ended with a tool error in the first of two prompts
C12_Witness ==
    /\ pc = "failed"
    /\ result.err = "ToolsetError"
    /\ iteration_max = 2
    /\ iteration_count = 1

\* C13: the scheduler goes REQUEST-PROMPT -> RUN-ROUND(s) -> CHECK-STOP:
\* a prompt request is followed by a round, finished() is consulted only
\* after a round of the prompt has returned Ok and concluded it, once, and
\* its answer alone decides between the successful end (true) and the next
\* prompt request (false); nothing else requests a prompt or ends the run
\* successfully.
C13_PromptRoundsCheckStop ==
    /\ [](pc = "finished_check" => depth >= 1 /\ result.ok)
    /\ [](pc = "done" => Finished)
    /\ [][/\ pc = "loop_prompt" => pc' = "inner_loop" /\ depth' = 0
          /\ pc = "inner_loop" /\ depth = 0
             => pc' = "validate_tooling" /\ depth' = 1
          /\ pc = "finished_check"
             => pc' = (IF Finished THEN "done" ELSE "loop_prompt")
          /\ pc' = "finished_check" => pc = "returned" /\ result.ok
          /\ pc' = "loop_prompt" => pc = "finished_check" /\ ~Finished
          /\ pc' = "done" => pc = "finished_check" /\ Finished
          /\ pc # "done"]_vars

\* C13 happens: the run ended successfully after two prompts, finished()
\* having answered false after the first
C13_Witness ==
    /\ pc = "done"
    /\ iterations = 2
    /\ iteration_max = 2

\* C14: every completion request of a scheduler run is given a non-empty
\* history that ends in a user turn (a prompt or a tool result), in every
\* prompt and every inner round.
C14_CompletionGetsUserTurnLast ==
    /\ pc = "completion" => messages # <<>> /\ Last(messages).role = "user"
    /\ \A k \in CallsOf("completion") : calls[k].arg = "user"

\* C14 happens: a completion request is due in the second prompt, the first
\* prompt having ended on a tool result when the quota was reached
C14_Witness ==
    /\ pc = "completion"
    /\ iterations = 2
    /\ Len(messages) >= 2
    /\ messages[Len(messages) - 1].kind = "tool_result"
    /\ Last(messages) = UserText

\* C15: a successful round keeps the order of the history: the history it
\* was given, its last turn included, is a prefix of the history it
\* returns, and what the round adds comes after it.
C15_InputIsPrefixOfResult ==
    RoundSucceeded
    => /\ Len(result.messages) > Len(round_input)
       /\ SubSeq(result.messages, 1, Len(round_input)) = round_input
       /\ result.messages[Len(round_input) + 1] = AssistantTurn(resp)

\* C15 happens: the second round of a prompt succeeded with tool calls, on a
\* history of the prompt, an assistant turn and a tool result
C15_Witness ==
    /\ RoundSucceeded
    /\ Len(round_input) >= 3
    /\ Last(round_input).kind = "tool_result"
    /\ result.tools_used > 0

----------------------------------------------------------------------------
(* Properties of the ledger's operations                                   *)

\* the amounts of a list that are not zero, in order
RECURSIVE NonZero(_)
NonZero(amounts) ==
    IF amounts = <<>> THEN <<>>
    ELSE IF amounts[1].v = 0 THEN NonZero(Tail(amounts))
         ELSE <<amounts[1]>> \o NonZero(Tail(amounts))

\* a ledger operation returned Ok with claims enabled: every request it had
\* to make was made and answered
LedgerOpDone(name) ==
    /\ ledger_pc = "returned"
    /\ ledger_result = "Ok"
    /\ ledger_op.name = name
    /\ send_claims = "1"

\* C16, as stated: claim_tool_call(name) bills the base cost once and the
\* custom cost of the tool once, b + c in all (b alone without a custom
\* cost).
C16_BaseAndCustomBilledOnce ==
    LedgerOpDone("claim_tool_call")
    => LET custom == claim_manager.custom_tool_cost[ledger_op.tool]
       IN  claims_sent =
               NonZero(<<claim_manager.base_tool_call_cost>>
                       \o (IF custom.some THEN <<custom.cost>> ELSE <<>>))

\* the claims C17 expects of claim_tokens(usage), a claim being an amount
\* that is not zero
TokenClaimsExpected ==
    LET usage == ledger_op.usage
        input_cost == claim_manager.input_token_cost
        output_cost == claim_manager.output_token_cost
    IN  IF input_cost.v = 0 /\ output_cost.v = 0
        THEN <<>>
        ELSE IF usage.input_tokens + usage.output_tokens # usage.total_tokens
        THEN NonZero(<<[unit |-> output_cost.unit,
                        v |-> usage.total_tokens * output_cost.v]>>)
        ELSE NonZero(<<[unit |-> input_cost.unit,
                        v |-> usage.input_tokens * input_cost.v],
                       [unit |-> output_cost.unit,
                        v |-> usage.output_tokens * output_cost.v]>>)

\* C17: claim_tokens(usage) claims nothing when both unit costs are zero,
\* claims total x output-cost alone when input + output differs from total,
\* and otherwise claims input x input-cost and then output x output-cost
\* as two separate claims; what it has sent so far is always the beginning
\* of that list, and all of it once it returns Ok.
C17_TokenClaims ==
    ledger_op.name = "claim_tokens" /\ send_claims = "1"
    => /\ Len(claims_sent) <= Len(TokenClaimsExpected)
       /\ claims_sent = SubSeq(TokenClaimsExpected, 1, Len(claims_sent))
       /\ LedgerOpDone("claim_tokens") => claims_sent = TokenClaimsExpected

\* C17 happens: with both costs set, claim_tokens of 1 input and 1 output
\* token (total 2) returned Ok after two claims
C17_Witness ==
    /\ LedgerOpDone("claim_tokens")
    /\ ledger_op.usage = Usage(1, 1, 2)
    /\ Len(claims_sent) = 2

----------------------------------------------------------------------------
(* Properties of the order of a round's external calls                     *)

RefreshOps == {"list_tools", "list_resources"}
AfterRefreshOps == {"completion", "call_tool", "add_telemetry"}

\* both refreshes of the current round have succeeded
RefreshesDone ==
    \/ pc \in {"completion", "choices"}
    \/ pc = "returned" /\ result.err # "McpServiceError"

\* C18: a round issues at most one completion request, and exactly one once
\* both refreshes have succeeded and the round has passed the request; when
\* the request fails the round returns CompletionError, and the failed
\* request is the last external call of the round: no retry, no tool call,
\* no telemetry.
C18_OneCompletionRequest ==
    /\ Cardinality(CallsOf("completion")) <= 1
    /\ RefreshesDone /\ pc # "completion"
       => Cardinality(CallsOf("completion")) = 1
    /\ \A k \in CallsOf("completion") :
          ~calls[k].ok
          => /\ k = Len(calls)
             /\ pc \in {"returned", "failed"}
             /\ result = Err("CompletionError")

\* C18 happens: a round returned CompletionError after both connections were
\* refreshed
C18_Witness ==
    /\ pc = "returned"
    /\ result.err = "CompletionError"
    /\ Cardinality(CallsOf("completion")) = 1
    /\ CallsOf("list_tools") # {}
    /\ CallsOf("call_tool") = {}

\* C19: in every round the tool lists of all connections are asked before
\* any resource list, and both before the completion request; when a list
\* request fails the round returns the provider's error and that request
\* is its last external call: no completion request, no tool call.
C19_RefreshBeforeCompletion ==
    /\ \A j \in DOMAIN calls : \A k \in DOMAIN calls :
          j < k
          => /\ calls[j].op = "list_resources" => calls[k].op # "list_tools"
             /\ calls[j].op \in AfterRefreshOps => calls[k].op \notin RefreshOps
    /\ pc = "validate_resources" => new_tools = <<>>
    /\ \A k \in DOMAIN calls :
          calls[k].op \in RefreshOps /\ ~calls[k].ok
          => /\ k = Len(calls)
             /\ pc \in {"returned", "failed"}
             /\ result = Err("McpServiceError")

\* C19 happens: a round failed on a resource list after its tool lists had
\* been fetched
C19_Witness ==
    /\ pc = "returned"
    /\ result.err = "McpServiceError"
    /\ CallsOf("list_tools") # {}
    /\ Last(calls).op = "list_resources"
    /\ ~Last(calls).ok

----------------------------------------------------------------------------
(* Properties of the eviction at the start of a round                      *)

\* the steps that start the tool refresh and the resource refresh
TakesToolEviction == pc = "inner_loop" /\ pc' = "validate_tooling"
TakesResourceEviction == pc = "validate_tooling" /\ pc' = "validate_resources"

\* nothing of connection c is left in the ToolSet / in the context
NoToolOf(ts, c) == \A n \in ToolNames : ts[n] # c
NoDocumentOf(docs, c) == \A k \in DOMAIN docs : docs[k].conn # c

\* C20, as stated: at the start of a round the items of every
\* always-revalidate connection are evicted and its tools_validated /
\* resources_validated flag is forced back to false; the flags of the other
\* connections are unchanged.
C20_FlagsForcedBack ==
    [][/\ TakesToolEviction
          => \A c \in Conns :
                IF conn_flags[c].revalidate_tooling
                THEN NoToolOf(tools', c) /\ ~tools_validated'[c]
                ELSE tools_validated'[c] = tools_validated[c]
       /\ TakesResourceEviction
          => \A c \in Conns :
                IF conn_flags[c].revalidate_resources
                THEN NoDocumentOf(static_context', c)
                     /\ ~resources_validated'[c]
                ELSE resources_validated'[c] = resources_validated[c]]_vars

\* C20, amended: at the start of a round the items of every
\* always-revalidate connection are evicted, and the eviction leaves the
\* tools_validated / resources_validated flags of all connections
\* unchanged; a flag is never cleared, and it becomes true only with a
\* successful fetch from its connection.
C20_EvictionKeepsFlags ==
    [][/\ TakesToolEviction
          => /\ \A c \in Conns :
                  conn_flags[c].revalidate_tooling => NoToolOf(tools', c)
             /\ UNCHANGED <<tools_validated, resources_validated>>
       /\ TakesResourceEviction
          => /\ \A c \in Conns :
                  conn_flags[c].revalidate_resources
                  => NoDocumentOf(static_context', c)
             /\ UNCHANGED <<tools_validated, resources_validated>>
       /\ \A c \in Conns :
             /\ tools_validated[c] => tools_validated'[c]
             /\ resources_validated[c] => resources_validated'[c]
             /\ tools_validated'[c] /\ ~tools_validated[c]
                => /\ Pop(calls') = calls
                   /\ IsListCall(Last(calls'))
                   /\ Last(calls').op = "list_tools"
                   /\ Last(calls').conn = c
             /\ resources_validated'[c] /\ ~resources_validated[c]
                => /\ Pop(calls') = calls
                   /\ IsListCall(Last(calls'))
                   /\ Last(calls').op = "list_resources"
                   /\ Last(calls').conn = c
      ]_vars

\* C20 happens: the second round of a prompt has evicted the tools and the
\* documents of an always-revalidate connection, whose flags are still true
C20_Witness ==
    /\ pc = "validate_resources"
    /\ conn_i = 1
    /\ depth = 2
    /\ \E c \in Conns :
        /\ conn_flags[c].revalidate_tooling
        /\ conn_flags[c].revalidate_resources
        /\ tools_validated[c]
        /\ resources_validated[c]
        /\ \E n \in ToolNames : prev_tools[n] = c
        /\ NoDocumentOf(static_context, c)

----------------------------------------------------------------------------
(* Properties of the merged tools and resources                            *)

\* how often the name n is in the list of advertised tool names
Advertised(n) == Cardinality({k \in DOMAIN static_tools : static_tools[k] = n})

\* C21, as stated: the ToolSet and the list of advertised tool names hold at
\* most one entry per tool name, and a name that is not in the ToolSet is
\* not advertised
C21_OneEntryPerToolName ==
    \A n \in ToolNames :
        /\ Advertised(n) <= 1
        /\ tools[n] = NoConn => Advertised(n) = 0

\* the documents of the ResourceSet docs that were read from connection c
DocumentsOf(docs, c) == SelectSeq(docs, LAMBDA d : d.conn = c)

\* the documents the step appended to the ResourceSet
FreshDocuments ==
    SubSeq(static_context', Len(static_context) + 1, Len(static_context'))

\* a step in which get_resources of the connection at conn_i succeeded
ResourcesFetched ==
    /\ pc = "validate_resources"
    /\ Len(calls') = Len(calls) + 1
    /\ Last(calls').ok

\* C22: when the resource fetch of an always-revalidate connection
\* succeeds, the ResourceSet holds as that connection's documents exactly the
\* documents of this fetch, once each: nothing of an earlier round is left
\* and nothing is doubled
C22_OnlyTheLatestFetch ==
    [][(ResourcesFetched /\ conn_flags[conn_i].revalidate_resources) =>
          /\ DocumentsOf(static_context', conn_i) = FreshDocuments
          /\ DocumentsOf(FreshDocuments, conn_i) = FreshDocuments
          /\ DocumentsOf(static_context, conn_i) = <<>>]_vars

\* the second round's fetch of an always-revalidate connection has
\* succeeded, and the one document it gave is the whole ResourceSet
C22_Witness ==
    /\ pc \in {"validate_resources", "completion"}
    /\ depth = 2
    /\ calls # <<>>
    /\ Last(calls).op = "list_resources"
    /\ Last(calls).ok
    /\ conn_flags[Last(calls).conn].revalidate_resources
    /\ Len(static_context) = 1
    /\ static_context[1].conn = Last(calls).conn
    /\ \E c \in Conns \ {Last(calls).conn} : conn_flags[c].skip_resources

----------------------------------------------------------------------------
(* Properties of the evaluation of a prompt                                *)

Parts == completion_prompt.parts

\* the prompt has String parts only
LiteralOnly == \A k \in DOMAIN Parts : Parts[k].kind = "String"

\* C23: every evaluation of a prompt of literal parts succeeds and all of
\* them return the same string, and no step of an evaluation changes the
\* prompt
C23_LiteralPromptEvaluatesTheSame ==
    /\ [](LiteralOnly =>
            \A i, j \in DOMAIN evaluated :
                /\ evaluated[i].ok
                /\ evaluated[i].string = evaluated[j].string)
    /\ [][completion_prompt' = completion_prompt]_vars

\* a prompt of two literal parts, one of them not empty, evaluated twice
C23_Witness ==
    /\ LiteralOnly
    /\ Len(Parts) >= 2
    /\ Len(evaluated) >= 2
    /\ evaluated[1].string # <<NewLine, NewLine>>

RECURSIVE ExpansionsInOrder(_, _)
\* the expansion of every part, in the order of the parts, each followed by
\* one newline
ExpansionsInOrder(parts, contents) ==
    IF parts = <<>> THEN <<>>
    ELSE (IF parts[1].kind = "String" THEN parts[1].string
          ELSE ResourceContentsToString(contents[1]))
         \o <<NewLine>>
         \o ExpansionsInOrder(Tail(parts), Tail(contents))

\* C24: a successful evaluation returns the expansions of the parts in the
\* order of the parts, each followed by one newline, the last part included;
\* a prompt without parts evaluates to the empty string
C24_PartsInOrderEachWithNewline ==
    \A i \in DOMAIN evaluated :
        evaluated[i].ok =>
            /\ Len(evaluated[i].read) = Len(Parts)
            /\ evaluated[i].string = ExpansionsInOrder(Parts, evaluated[i].read)
            /\ Parts = <<>> => evaluated[i].string = <<>>

\* a successful evaluation of a literal part that is not empty followed by a
\* resource part that read two contents
C24_Witness ==
    /\ Len(Parts) = 2
    /\ Parts[1].kind = "String"
    /\ Parts[1].string # <<>>
    /\ Parts[2].kind # "String"
    /\ evaluated # <<>>
    /\ evaluated[1].ok
    /\ Len(evaluated[1].read[2]) = 2

----------------------------------------------------------------------------
(* Properties of the single flow of control                                *)

RECURSIVE ToolCallNames(_)
\* the tool names of the tool-call items of a response, in its order
ToolCallNames(choice) ==
    IF choice = <<>> THEN <<>>
    ELSE IF choice[1].kind = "ToolCall"
         THEN <<choice[1].name>> \o ToolCallNames(Tail(choice))
         ELSE ToolCallNames(Tail(choice))

RECURSIVE ToolsInvoked(_)
\* the tool names of the tool invocations among the external calls cs
ToolsInvoked(cs) ==
    IF cs = <<>> THEN <<>>
    ELSE IF cs[1].op = "call_tool"
         THEN <<cs[1].arg>> \o ToolsInvoked(Tail(cs))
         ELSE ToolsInvoked(Tail(cs))

IsPrefix(s, t) == Len(s) <= Len(t) /\ s = SubSeq(t, 1, Len(s))

\* C25: the tools invoked in a round are the tool calls of the response,
\* one after the other in the order of the response (all of them once the
\* round succeeded); every step issues at most one external call, which is
\* answered in the same step; a round is entered only from the scheduler's
\* inner loop, where no round is in progress
C25_SingleFlow ==
    /\ [](/\ IsPrefix(ToolsInvoked(calls), ToolCallNames(resp))
          /\ RoundSucceeded => ToolsInvoked(calls) = ToolCallNames(resp))
    /\ [][/\ \/ calls' = calls
             \/ calls' = <<>> /\ pc = "inner_loop"
             \/ Len(calls') = Len(calls) + 1 /\ Pop(calls') = calls
          /\ (pc' = "validate_tooling" /\ pc # "validate_tooling")
                => pc = "inner_loop"
          /\ pc = "inner_loop"
                => pc' \in {"inner_loop", "validate_tooling"}]_vars

\* a successful round that invoked two different tools
C25_Witness ==
    /\ RoundSucceeded
    /\ Len(ToolsInvoked(calls)) = 2
    /\ ToolsInvoked(calls)[1] # ToolsInvoked(calls)[2]

----------------------------------------------------------------------------
(* Properties of the quota and of the number of prompts                    *)

RECURSIVE ToolResultsSincePrompt(_)
\* the number of tool-result turns behind the last prompt of a history
ToolResultsSincePrompt(msgs) ==
    IF msgs = <<>> THEN 0
    ELSE IF Last(msgs).role = "user" /\ Last(msgs).kind = "text" THEN 0
    ELSE (IF Last(msgs).kind = "tool_result" THEN 1 ELSE 0)
         + ToolResultsSincePrompt(Pop(msgs))

\* C26, as stated: with a quota q >= 1, the tool calls executed for one
\* prompt are never more than q
C26_ToolsOfOnePromptWithinQuota ==
    \A q \in 1..MaxQuota :
        (QuotaIs(q) /\ RoundSucceeded) =>
            ToolResultsSincePrompt(result.messages) <= q

\* C27, as stated: a loop that ended successfully has requested exactly
\* iteration_max prompts, and never requests more
C27_ExactlyNPrompts ==
    /\ iterations <= iteration_max
    /\ pc = "done" => iterations = iteration_max

----------------------------------------------------------------------------
(* Properties of consecutive refreshes                                     *)

\* the provider answered this round's list requests as it answered the
\* previous round's
ProviderUnchanged ==
    \A k \in DOMAIN calls :
        IsListCall(calls[k]) =>
            \E j \in DOMAIN prev_round.lists : prev_round.lists[j] = calls[k]

Count(s, x) == Cardinality({k \in DOMAIN s : s[k] = x})

\* the same items, each the same number of times, in whatever order
SameItems(s, t) ==
    \A x \in Range(s) \cup Range(t) : Count(s, x) = Count(t, x)

\* both refreshes of a round that is not the first one are done
RefreshedAgain == pc = "completion" /\ depth >= 2

\* C28, as stated: a refresh that follows another one, the providers
\* answering as before, leaves the ToolSet, the advertised tool names and
\* the ResourceSet as the first refresh left them (the order of the two
\* lists aside)
C28_RefreshIsIdempotent ==
    (RefreshedAgain /\ ProviderUnchanged) =>
        /\ tools = prev_tools
        /\ SameItems(static_tools, prev_round.static_tools)
        /\ SameItems(static_context, prev_round.static_context)

----------------------------------------------------------------------------
(* Properties of the fetch rule                                            *)

\* a step of the refresh at pc that asks the connection at conn_i for its
\* list (op), and a step that passes the connection over
FetchStep(at, op) ==
    /\ pc = at
    /\ Len(calls') = Len(calls) + 1
    /\ Last(calls').op = op
PassStep(at) ==
    /\ pc = at
    /\ calls' = calls
    /\ conn_i' = conn_i + 1

\* the fetch rule of one category: `at` is the position of its refresh,
\* op its list request, skip / revalidate / validated the policy flags and
\* the validated flag of a connection, before and after the step
FetchRule(at, op, skip(_), revalidate(_), validated(_), validated_after(_)) ==
    /\ FetchStep(at, op) =>
        /\ Last(calls').conn = conn_i
        /\ ~skip(conn_i)
        /\ revalidate(conn_i) \/ ~validated(conn_i)
        /\ ListCallsTo(op, conn_i) = {}
        /\ Last(calls').ok => validated_after(conn_i)
        /\ conn_i' = IF Last(calls').ok THEN conn_i + 1 ELSE conn_i
    /\ (PassStep(at) /\ conn_i \in Conns) =>
        \/ skip(conn_i)
        \/ validated(conn_i) /\ ~revalidate(conn_i)
    /\ \A c \in Conns :
        /\ validated(c) => validated_after(c)
        /\ (~validated(c) /\ validated_after(c)) =>
            /\ FetchStep(at, op)
            /\ Last(calls').ok
            /\ conn_i = c

\* C29: in the refresh of a category the connections are taken one by one;
\* a connection is asked for its list, and at most once in the refresh, only
\* if it is not skipped and is always-revalidate or not yet validated, and
\* is passed over only if it is skipped or validated and not
\* always-revalidate; the validated flag becomes true with a successful
\* fetch of the connection, in no other step, and stays true, so that a
\* connection that is not always-revalidate is fetched successfully at most
\* once
C29_FetchRule ==
    [][/\ FetchRule("validate_tooling", "list_tools",
                    LAMBDA c : conn_flags[c].skip_tooling,
                    LAMBDA c : conn_flags[c].revalidate_tooling,
                    LAMBDA c : tools_validated[c],
                    LAMBDA c : tools_validated'[c])
       /\ FetchRule("validate_resources", "list_resources",
                    LAMBDA c : conn_flags[c].skip_resources,
                    LAMBDA c : conn_flags[c].revalidate_resources,
                    LAMBDA c : resources_validated[c],
                    LAMBDA c : resources_validated'[c])
       /\ pc \in {"validate_tooling", "validate_resources"} =>
            \/ conn_i' \in {conn_i, conn_i + 1}
            \/ pc' = "validate_resources" /\ conn_i > Len(McpConnections)]_vars

\* the refreshes of a second round are done: a validated connection that is
\* not always-revalidate was passed over in both, and an always-revalidate
\* connection was asked again for its tools and for its resources
C29_Witness ==
    /\ pc = "completion"
    /\ depth = 2
    /\ \E c, d \in Conns :
        /\ ~conn_flags[c].revalidate_tooling /\ tools_validated[c]
        /\ ~conn_flags[c].revalidate_resources /\ resources_validated[c]
        /\ ListCallsTo("list_tools", c) = {}
        /\ ListCallsTo("list_resources", c) = {}
        /\ conn_flags[d].revalidate_tooling
        /\ conn_flags[d].revalidate_resources
        /\ ListCallsTo("list_tools", d) # {}
        /\ ListCallsTo("list_resources", d) # {}

----------------------------------------------------------------------------
(* Properties of a failed tool invocation                                  *)

\* the tool invocations of the round that failed
FailedToolCalls == {k \in CallsOf("call_tool") : ~calls[k].ok}

\* the tool-result turns the round has added to the history
ToolResultTurns ==
    {k \in DOMAIN messages :
        k > Len(round_input) /\ messages[k].kind = "tool_result"}

\* C30: once a tool invocation has failed, the round has returned the tool
\* error; the failed invocation is the round's last external call (no later
\* tool call, no second attempt, no telemetry) and the history holds
\* tool-result turns for the tool calls that succeeded only
C30_ToolErrorEndsRound ==
    FailedToolCalls # {} =>
        /\ pc \in {"returned", "failed"}
        /\ result = Err("ToolsetError")
        /\ FailedToolCalls = {Len(calls)}
        /\ CallsOf("add_telemetry") = {}
        /\ Cardinality(ToolResultTurns)
              = Cardinality(CallsOf("call_tool")) - 1

\* a round that has ended with the failure of its first tool call, the
\* response holding another tool call behind it
C30_Witness ==
    /\ pc = "returned"
    /\ FailedToolCalls # {}
    /\ Cardinality(CallsOf("call_tool")) = 1
    /\ NumToolCalls(resp) = 2
    /\ telemetry # "None"

----------------------------------------------------------------------------
(* Properties of the turns and counts a round returns                      *)

RECURSIVE ToolResultsOf(_)
\* one tool-result turn per tool-call item of a response, in its order,
\* with the item's id and call-id
ToolResultsOf(choice) ==
    IF choice = <<>> THEN <<>>
    ELSE IF choice[1].kind = "ToolCall"
         THEN <<[role |-> "user", kind |-> "tool_result",
                 id |-> choice[1].id, call_id |-> choice[1].call_id,
                 content |-> <<>>]>>
              \o ToolResultsOf(Tail(choice))
         ELSE ToolResultsOf(Tail(choice))

\* C31: the history a successful round returns is the history it was given
\* (the prompt back in its last place), then one assistant turn holding all
\* content items of the response, then one user tool-result turn per tool
\* call, in the order of the tool calls, each with the id of its tool call
\* and with the call-id the model supplied, if any
C31_TurnsOfARound ==
    RoundSucceeded =>
        /\ result.messages[Len(round_input)] = Last(round_input)
        /\ result.messages =
              round_input
              \o <<[role |-> "assistant", kind |-> "content", id |-> 0,
                    call_id |-> "none", content |-> resp]>>
              \o ToolResultsOf(resp)

\* a successful round with two tool calls, one with a call-id and one
\* without
C31_Witness ==
    /\ RoundSucceeded
    /\ NumToolCalls(resp) = 2
    /\ resp[1].call_id # resp[2].call_id

RECURSIVE TextsOf(_)
\* the text items of a response, in its order
TextsOf(choice) ==
    IF choice = <<>> THEN <<>>
    ELSE IF choice[1].kind = "Text"
         THEN <<choice[1].id>> \o TextsOf(Tail(choice))
         ELSE TextsOf(Tail(choice))

\* C32: a successful round returns as tools_used the number of tool-call
\* items of the response and as texts its text items in their order; items
\* of other kinds count for neither
C32_CountsOfARound ==
    RoundSucceeded =>
        /\ result.tools_used = NumToolCalls(resp)
        /\ result.texts = TextsOf(resp)
        /\ result.tools_used + Len(result.texts) <= Len(resp)

\* a successful round whose response holds an item that is neither a tool
\* call nor a text, next to one that is
C32_Witness ==
    /\ RoundSucceeded
    /\ result.tools_used + Len(result.texts) = 1
    /\ Len(resp) = 2

----------------------------------------------------------------------------
(* Properties of the telemetry of a round                                  *)

RoundEnded == pc \in {"returned", "failed"}

\* C33, as stated: a round submits a telemetry report if and only if it
\* recorded a telemetry target and the telemetry mode is not None
C33_ReportIffTargets ==
    RoundEnded =>
        (CallsOf("add_telemetry") # {}
            <=> (telemetry_targets # <<>> /\ telemetry # "None"))

\* C33, amended: a round that succeeds has submitted a telemetry report if
\* and only if it recorded a telemetry target and the telemetry mode is not
\* None; a round that fails has submitted none, whatever targets it
\* recorded; a round submits at most one report, as its last external call,
\* behind all of its tool calls
C33_ReportOfASuccessfulRound ==
    /\ RoundSucceeded =>
        /\ CallsOf("add_telemetry") # {}
              <=> (telemetry_targets # <<>> /\ telemetry # "None")
        /\ ToolsInvoked(calls) = ToolCallNames(resp)
    /\ (RoundEnded /\ ~result.ok) => CallsOf("add_telemetry") = {}
    /\ CallsOf("add_telemetry") \subseteq {Len(calls)}

\* a successful round with two tool calls, the first of which gave a
\* telemetry target, has submitted its report
C33_Witness ==
    /\ RoundSucceeded
    /\ NumToolCalls(resp) = 2
    /\ Len(telemetry_targets) = 1
    /\ CallsOf("add_telemetry") # {}

\* a step in which a tool call of the response returned its output
ToolReturned ==
    /\ AtItem("ToolCall")
    /\ Len(calls') = Len(calls) + 1
    /\ Last(calls').ok

\* C34: a tool name and output give a telemetry target if and only if the
\* tool is the Coral send-message tool and the output parses as a
\* send-message success, and then one target, with the message id of the
\* output and its thread id; a tool call adds the targets of its name and
\* output and nothing else, so that a round never has more targets than
\* tools used
C34_TargetsOfToolCalls ==
    /\ [](/\ \A n \in ToolNames, o \in ToolOutputs :
                LET found == FindTelemetryTargets(n, o)
                IN  /\ Len(found) <= 1
                    /\ Len(found) = 1 <=>
                          (n = CoralSendMessage
                           /\ o.parse = "SendMessageSuccess")
                    /\ Len(found) = 1 => found[1].message_id = o.message
          /\ Len(telemetry_targets) <= tools_used)
    /\ [][/\ ToolReturned =>
              /\ Len(telemetry_targets') \in
                    {Len(telemetry_targets), Len(telemetry_targets) + 1}
              /\ SubSeq(telemetry_targets', 1, Len(telemetry_targets))
                    = telemetry_targets
              /\ Item.name # CoralSendMessage
                    => telemetry_targets' = telemetry_targets
          /\ (pc = "choices" /\ ~ToolReturned)
                => telemetry_targets' = telemetry_targets]_vars

\* a successful round of two calls of the send-message tool, only one of
\* which returned a send-message success
C34_Witness ==
    /\ RoundSucceeded
    /\ ToolsInvoked(calls) = <<CoralSendMessage, CoralSendMessage>>
    /\ Len(telemetry_targets) = 1

\* C35: a send that posts, posts one report with all messages of the
\* request: in OpenAI mode in the OpenAI shape if every message converts and
\* in the generic shape as soon as one does not, in Generic mode always in
\* the generic shape; a send posts if and only if the request has targets
\* and messages (in mode None it does not return)
C35_ShapeOfTheReport ==
    RequestSent =>
        LET post == send_result.post
            all_convert == \A k \in DOMAIN request.messages : request.converts[k]
        IN  /\ post.sent <=> (/\ request.targets # <<>>
                              /\ request.messages # <<>>
                              /\ request.telemetry_mode # "None")
            /\ post.sent =>
                /\ post.count = Len(request.messages)
                /\ post.targets = request.targets
                /\ request.telemetry_mode = "OpenAI" =>
                      post.shape = IF all_convert THEN "OpenAi" ELSE "Generic"
                /\ request.telemetry_mode = "Generic" => post.shape = "Generic"

\* a request in OpenAI mode with two messages, one of which does not
\* convert, was posted
C35_Witness ==
    /\ RequestSent
    /\ send_result.post.sent
    /\ request.telemetry_mode = "OpenAI"
    /\ Len(request.messages) = 2
    /\ request.converts[1] # request.converts[2]

----------------------------------------------------------------------------
(* Properties of the order of an operation's claims                        *)

\* a claim of the operation in progress failed: the remote did not answer
\* it, or answered with a budget at or below the floor while
\* exit_on_budget_exhausted is set
ClaimFailed ==
    /\ claims_sent # <<>>
    /\ \/ ~budget.ok
       \/ ExitOnBudgetExhausted /\ RemainingAtOrBelowFloor(budget)

\* C36: within one ledger operation the claims are sent one at a time and
\* in the order of the code (claim_tokens: the input claim before the output
\* claim; claim_tool_call: the base claim before any custom claim), and the
\* first claim that fails, by a remote error or by BudgetExhausted, is the
\* last claim of the operation: the operation returns that error with
\* nothing left to send, and no claim is sent after it.
C36_ClaimsInOrderUntilFailure ==
    /\ [](/\ ledger_op.name = "claim_tokens" /\ Len(claims_sent) = 2
             => /\ claims_sent[1].v
                     = ledger_op.usage.input_tokens
                         * claim_manager.input_token_cost.v
                /\ claims_sent[2].v
                     = ledger_op.usage.output_tokens
                         * claim_manager.output_token_cost.v
          /\ ledger_op.name = "claim_tool_call" /\ claims_sent # <<>>
             => LET base == claim_manager.base_tool_call_cost
                    custom == claim_manager.custom_tool_cost[ledger_op.tool]
                IN  /\ base.v # 0 => claims_sent[1] = base
                    /\ \A k \in DOMAIN claims_sent :
                         (k > 1 \/ base.v = 0)
                         => custom.some /\ claims_sent[k] = custom.cost
          /\ ClaimFailed
             => /\ ledger_result \in {"ApiError", "BudgetExhausted"}
                /\ ledger_pc \in {"returned", "terminated"}
                /\ pending = <<>>)
    /\ [][/\ claims_sent' # claims_sent /\ claims_sent' # <<>>
             => /\ Len(claims_sent') = Len(claims_sent) + 1
                /\ SubSeq(claims_sent', 1, Len(claims_sent)) = claims_sent
                /\ pending # <<>>
                /\ Last(claims_sent') = Head(pending)
          /\ ClaimFailed => claims_sent' = claims_sent]_vars

\* C36 happens: claim_tokens had an input claim and an output claim to send,
\* the input claim failed, and the operation returned after that one claim
C36_Witness ==
    /\ ledger_op.name = "claim_tokens"
    /\ ledger_op.usage = Usage(1, 1, 2)
    /\ claim_manager.input_token_cost.v # 0
    /\ claim_manager.output_token_cost.v # 0
    /\ ledger_pc = "returned"
    /\ ledger_result \in {"ApiError", "BudgetExhausted"}
    /\ Len(claims_sent) = 1

----------------------------------------------------------------------------
(* Termination of the scheduler                                            *)

\* execute is one sequential task: when every awaited call returns, the step
\* that follows it is taken
SpecReturning == Init /\ [][Next]_vars /\ WF_vars(Next)

QuotaFinite == \E q \in 1..MaxQuota : QuotaIs(q)

Terminated == pc \in {"done", "failed"}

\* C37: with a quota q >= 1, a prompt provider that finishes and every
\* external call returning, execute terminates; a prompt never has more than
\* q rounds, so the completion requests issued are at most q for each prompt
\* requested.  With an unlimited quota the inner loop is only left by a round
\* that used no tool (or by an error): a round that used a tool is always
\* followed by another round of the same prompt.
C37_Terminates ==
    /\ QuotaFinite ~> Terminated
    /\ [](\A q \in 1..MaxQuota :
            QuotaIs(q) => /\ depth <= q
                          /\ completions <= iterations * q)
    /\ [](/\ pc = "done" => Finished
          /\ iteration_tool_quota = None
             => /\ log # "tool quota reached"
                /\ pc \in {"finished_check", "done"} => result.tools_used = 0)
    /\ [][/\ iteration_tool_quota = None
          /\ pc = "returned" /\ result.ok /\ result.tools_used > 0
          => /\ pc' = "inner_loop"
             /\ depth' = depth /\ iterations' = iterations]_vars

\* C37 happens: with quota 2 and two prompts, every round used a tool, and
\* execute ended after 2 x 2 completion requests
C37_Witness ==
    /\ pc = "done"
    /\ QuotaIs(2)
    /\ iterations = 2
    /\ completions = 4

----------------------------------------------------------------------------
(* Properties of a refresh that fails part-way                             *)

\* C38, as stated: outside a tool refresh in progress, every connection that
\* is neither skip nor always-revalidate and whose tools_validated flag is
\* true has the tools it fetched in the ToolSet, also when the refresh
\* failed at a later connection.
C38_ValidatedToolsAreMerged ==
    pc # "validate_tooling" =>
        \A k \in DOMAIN calls :
            (IsListCall(calls[k]) /\ calls[k].op = "list_tools") =>
                LET c == calls[k].conn
                    names == calls[k].arg
                IN  (/\ tools_validated[c]
                     /\ ~conn_flags[c].skip_tooling
                     /\ ~conn_flags[c].revalidate_tooling)
                    => \A j \in DOMAIN names : tools[names[j]] # NoConn

\* C39, as stated: a tool that a connection which is neither skip nor
\* always-revalidate has put into the ToolSet is in the ToolSet after the
\* refresh of every later round, whatever the other connections advertise.
C39_PlainToolsStay ==
    ToolSetMerged =>
        \A n \in ToolNames :
            (/\ prev_tools[n] # NoConn
             /\ ~conn_flags[prev_tools[n]].skip_tooling
             /\ ~conn_flags[prev_tools[n]].revalidate_tooling)
            => tools[n] # NoConn

----------------------------------------------------------------------------
(* Properties of the quota of zero                                         *)

Max(a, b) == IF a >= b THEN a ELSE b

\* C40, as stated: with a quota Some(q), q >= 0, the rounds run for one
\* prompt are never more than max(1, q); Some(0) gives a single round.
C40_RoundsWithinQuota ==
    \A q \in 0..MaxQuota : QuotaIs(q) => depth <= Max(1, q)

====
